---- MODULE Spec2Model ----
(***************************************************************************)
(* A model of gps-astro.py: the telemetry decoder and smoothing windows,   *)
(* the solar-term search, the solar-term year cache shared by the three    *)
(* threads, and the one-second driver tick with its event scheduler.       *)
(*                                                                         *)
(* Each part of the program has its own specification over its own         *)
(* variables; the other variables keep their initial values there.         *)
(*   SpecSmooth  add_sample on one smoothing window                        *)
(*   SpecParse   parse_gprmc and the line handler of tcp_recv_thread       *)
(*   SpecTerms   calculate_solar_terms and find_solar_term_time            *)
(*   SpecApp     the driver tick: update_display, update_minutely_astro    *)
(*               and _maybe_fire_event, against tcp_recv_thread            *)
(*   SpecYear    get_solar_term_info called from the three threads         *)
(*   SpecDay     the day windows of the rise, set and transit searches     *)
(*   SpecCalc    init_skyfield, then calls of the sun and moon calculators *)
(*   SpecRemind  solar_term_reminder on sorted term lists                  *)
(*   SpecPhase   the phase names of calculate_moon_phase_de421             *)
(*   SpecFind    find_solar_term_time on any start date and target         *)
(*   SpecRollover  the driver tick on the nights around two midnights      *)
(*   SpecRace    add_sample against average, step by step                  *)
(*   SpecConn    tcp_recv_thread and its connect / disconnect records      *)
(*   SpecDmm     dmm_format on latitudes and longitudes                    *)
(*                                                                         *)
(* Python's None is the empty tuple and a present value v is <<v>>, so     *)
(* that an optional value can be compared with None whatever its type.     *)
(***************************************************************************)
EXTENDS Integers, Sequences, FiniteSets, TLC

VARIABLES
  \* ---- time.time() as seen by the telemetry thread, in whole seconds
  clock,
  \* ---- one smoothing window (SpecSmooth)
  history,          \* deque of <<timestamp, value>>, oldest first
  inserted,         \* every <<timestamp, value>> handed to add_sample so far
  \* ---- the line handler of tcp_recv_thread (SpecParse)
  line,             \* the last line received, already split at ','
  parsed,           \* what parse_gprmc returns for `line`
  latest_data,      \* GPSApp.latest_data
  speed_history,    \* GPSApp.speed_history
  course_history,   \* GPSApp.course_history
  \* ---- calculate_solar_terms(year) (SpecTerms)
  sun,              \* the apparent motion of the sun given by the ephemeris
  scan_day,         \* `current`, in days since start_date
  prev_lon,         \* prev_lon
  solar_terms_dates,\* the list of <<term name, instant>> being built
  refined,          \* <<target, instant>> of each find_solar_term_time call of the last day
  term_pc,          \* "scan" in the while loop, "returned" after the sort
  \* ---- the driver tick and the telemetry thread (SpecApp)
  wall,             \* datetime.now(), local time in ticks of half a second
  sky,              \* today's rise and set instants at the reference position
  is_connected,     \* GPSApp.is_connected
  tcp_pc,           \* where tcp_recv_thread is
  drv_pc,           \* where update_display is; "idle" between two ticks
  tick_due,         \* the earliest time the timer armed by after(1000, ...) fires
  lat,              \* the latitude read for the next update_minutely_astro call
  astro_args,       \* the <<lat, lon>> of the last update_minutely_astro call
  last_astro_calc_minute,   \* GPSApp.last_astro_calc_minute
  next_dt,          \* next_moonrise_dt, next_moonset_dt, next_sunrise_dt, next_sunset_dt
  now_local,        \* the now_local of the running _maybe_fire_event
  fire_i,           \* which of its four blocks _maybe_fire_event is in
  fire_key,         \* the key of the running fire_once
  fired_event_keys, \* GPSApp._fired_event_keys
  event_log,        \* the calls of _write_event_log, as <<kind, key>>
  astro_calcs,      \* the minutes for which the body of update_minutely_astro ran
  refreshed,        \* what the refresh of the running fire_once did
  cached,           \* cached_sunrise and cached_moonrise
  connection_lost_logged,   \* GPSApp.connection_lost_logged
  conn_log,         \* the calls of log_connection_event, as "connect" / "disconnect"
  \* ---- the solar-term cache and the threads that reach it (SpecYear)
  this_year,        \* datetime.today().year
  last_solar_term_calc_year,   \* the global of that name
  current_solar_terms,         \* the year the cached list was computed for
  year_pc,          \* where each thread is in get_solar_term_info
  today_year,       \* each thread's today.year
  calc_runs,        \* how many times calculate_solar_terms ran, by year
  \* ---- one call of a function of the program (SpecDay)
  fn_call,          \* the function called and its arguments
  fn_result,        \* what the call returned
  \* ---- init_skyfield and the calculators (SpecCalc)
  loaded,           \* which of the globals ephemeris, ts, earth, moon, sun are not None
  init_pc           \* "start" before init_skyfield, then "ok" or "failed" (its result)

smoothVars == <<history, inserted>>
parseVars  == <<line, parsed, speed_history, course_history>>
termVars   == <<sun, scan_day, prev_lon, solar_terms_dates, refined, term_pc>>
appVars    == <<wall, sky, is_connected, tcp_pc, drv_pc, tick_due, lat, astro_args,
                last_astro_calc_minute, next_dt, now_local, fire_i, fire_key,
                fired_event_keys, event_log, astro_calcs, refreshed, cached,
                connection_lost_logged, conn_log>>
yearVars   == <<this_year, last_solar_term_calc_year, current_solar_terms, year_pc,
                today_year, calc_runs>>
pureVars   == <<fn_call, fn_result>>
ephVars    == <<loaded, init_pc>>
vars == <<clock, smoothVars, parseVars, latest_data, termVars, appVars, yearVars, pureVars,
          ephVars>>

None == <<>>
Some(v) == <<v>>
Val(opt) == opt[1]

Min(S) == CHOOSE x \in S : \A y \in S : x <= y
Abs(x) == IF x < 0 THEN -x ELSE x

\* no function call made
PureIdle == fn_call = None /\ fn_result = None /\ loaded = {} /\ init_pc = "start"
PureFrame == UNCHANGED <<clock, smoothVars, parseVars, latest_data, termVars, appVars, yearVars>>

(***************************************************************************)
(* Smoothing windows: add_sample, average.                                 *)
(***************************************************************************)
SMOOTH_WINDOW == 20

RECURSIVE PopExpired(_, _)
\* while history and (now - history[0][0] > SMOOTH_WINDOW): history.popleft()
PopExpired(h, now) ==
  IF h # <<>> /\ now - h[1][1] > SMOOTH_WINDOW
  THEN PopExpired(Tail(h), now)
  ELSE h

\* The same loop with >= : a sample exactly SMOOTH_WINDOW old is dropped too.
RECURSIVE PopExpiredEager(_, _)
PopExpiredEager(h, now) ==
  IF h # <<>> /\ now - h[1][1] >= SMOOTH_WINDOW
  THEN PopExpiredEager(Tail(h), now)
  ELSE h

add_sample_eager(h, now, value) == PopExpiredEager(Append(h, <<now, value>>), now)

\* add_sample(history, value), with now = time.time() made a parameter
add_sample(h, now, value) == PopExpired(Append(h, <<now, value>>), now)

RECURSIVE SumValues(_)
SumValues(h) == IF h = <<>> THEN 0 ELSE h[1][2] + SumValues(Tail(h))

\* average(history) as the pair <<sum, count>>; the mean is sum / count, 0.0 if empty
average(h) == IF h = <<>> THEN <<0, 1>> ELSE <<SumValues(h), Len(h)>>

\* ---- bounds of SpecSmooth
MaxSamples == 6
SampleGaps == {0, 5, 21}        \* seconds between two calls of add_sample
SampleValues == {10, 30}

SmoothIdle == history = <<>> /\ inserted = <<>>

AddSample(gap, v) ==
  /\ Len(inserted) < MaxSamples
  /\ clock' = clock + gap
  /\ history' = add_sample(history, clock', v)
  /\ inserted' = Append(inserted, <<clock', v>>)
  /\ UNCHANGED <<parseVars, latest_data, termVars, appVars, yearVars, pureVars, ephVars>>

NextSmooth == \E gap \in SampleGaps, v \in SampleValues : AddSample(gap, v)

(***************************************************************************)
(* parse_gprmc.  A line is the sequence of its comma-separated fields and  *)
(* a field is the sequence of its characters.  A float is a fixed-point    *)
(* integer in units of 1/Scale; a latitude or longitude is an integer in   *)
(* units of 1/Scale arc-minute (1/(60*Scale) degree), which represents     *)
(* deg + min/60 exactly.                                                   *)
(***************************************************************************)
Scale == 10000
FracDigits == 4

DigitChars == <<"0", "1", "2", "3", "4", "5", "6", "7", "8", "9">>
IsDigit(c) == \E i \in 1..10 : DigitChars[i] = c
DigitVal(c) == (CHOOSE i \in 1..10 : DigitChars[i] = c) - 1

RECURSIVE Pow10(_)
Pow10(n) == IF n = 0 THEN 1 ELSE 10 * Pow10(n - 1)

RECURSIVE DigitsValue(_)
DigitsValue(s) ==
  IF s = <<>> THEN 0
  ELSE DigitsValue(SubSeq(s, 1, Len(s) - 1)) * 10 + DigitVal(s[Len(s)])

\* int(x / 100) for a float x: the quotient rounded toward zero
TruncDiv(a, b) == IF a >= 0 THEN a \div b ELSE -((-a) \div b)

\* float(field): [sign] digits [. digits] with at least one digit, else ValueError
\* (None here).  Decimals beyond FracDigits are cut.
ParseFloat(f) ==
  LET signed == f # <<>> /\ f[1] \in {"-", "+"}
      body   == IF signed THEN Tail(f) ELSE f
      dots   == {i \in 1..Len(body) : body[i] = "."}
      dot    == IF dots = {} THEN Len(body) + 1 ELSE Min(dots)
      ip     == SubSeq(body, 1, dot - 1)
      fpAll  == SubSeq(body, dot + 1, Len(body))
      fp     == SubSeq(fpAll, 1, IF Len(fpAll) < FracDigits THEN Len(fpAll) ELSE FracDigits)
      ok     == /\ \A i \in 1..Len(ip) : IsDigit(ip[i])
                /\ \A i \in 1..Len(fpAll) : IsDigit(fpAll[i])
                /\ Len(ip) + Len(fpAll) >= 1
      mag    == DigitsValue(ip) * Scale + DigitsValue(fp) * Pow10(FracDigits - Len(fp))
  IN IF ~ok THEN None
     ELSE Some(IF signed /\ f[1] = "-" THEN -mag ELSE mag)

TagGPRMC == <<"$", "G", "P", "R", "M", "C">>
Raised == <<[exception |-> TRUE]>>

\* parts[i] of the source (0-based) and whether it exists (else IndexError)
Part(parts, i) == parts[i + 1]
HasPart(parts, i) == Len(parts) > i

\* lat_deg + lat_min / 60.0, negated for the given hemisphere letter
DecodeDegMin(raw, dir, negative_dir) ==
  LET deg == TruncDiv(raw, 100 * Scale)
      min == raw % (100 * Scale)
      dd  == deg * 60 * Scale + min
  IN IF dir = negative_dir THEN -dd ELSE dd

\* The body of the try block: a fix, None, or Raised (an exception left it).
parse_gprmc_try(parts) ==
  IF Part(parts, 0) # TagGPRMC THEN None
  ELSE IF ~HasPart(parts, 2) THEN Raised
  ELSE IF Part(parts, 2) # <<"A">> THEN None
  ELSE IF ~HasPart(parts, 3) \/ ParseFloat(Part(parts, 3)) = None THEN Raised
  ELSE IF ~HasPart(parts, 4) THEN Raised
  ELSE IF ~HasPart(parts, 5) \/ ParseFloat(Part(parts, 5)) = None THEN Raised
  ELSE IF ~HasPart(parts, 6) THEN Raised
  ELSE IF ~HasPart(parts, 7) \/ ParseFloat(Part(parts, 7)) = None THEN Raised
  ELSE IF ~HasPart(parts, 8) \/ ParseFloat(Part(parts, 8)) = None THEN Raised
  ELSE Some([latitude  |-> DecodeDegMin(Val(ParseFloat(Part(parts, 3))), Part(parts, 4), <<"S">>),
             longitude |-> DecodeDegMin(Val(ParseFloat(Part(parts, 5))), Part(parts, 6), <<"W">>),
             speed     |-> Val(ParseFloat(Part(parts, 7))),
             course    |-> Val(ParseFloat(Part(parts, 8)))])

\* parse_gprmc without the test of the validity flag
parse_gprmc_any_status(parts) ==
  LET r == parse_gprmc_try([parts EXCEPT ![3] = <<"A">>])
  IN IF Len(parts) < 3 THEN None ELSE IF r = Raised THEN None ELSE r

\* parse_gprmc negating the latitude for N instead of S
parse_gprmc_north_negative(parts) ==
  LET r == parse_gprmc_try(parts)
  IN IF r = Raised \/ r = None THEN None
     ELSE Some([Val(r) EXCEPT !.latitude =
                  DecodeDegMin(Val(ParseFloat(Part(parts, 3))), Part(parts, 4), <<"N">>)])

\* parse_gprmc(line): except Exception: return None
parse_gprmc(parts) ==
  LET r == parse_gprmc_try(parts)
  IN IF r = Raised THEN None ELSE r

\* line.startswith('$GPRMC')
StartsWithGPRMC(parts) ==
  Len(Part(parts, 0)) >= Len(TagGPRMC) /\ SubSeq(Part(parts, 0), 1, Len(TagGPRMC)) = TagGPRMC

\* ---- the lines SpecParse receives
F_time   == <<"1", "2", "3", "5", "1", "9">>
F_date   == <<"2", "3", "0", "3", "9", "4">>
F_lat    == <<"3", "7", "2", "3", ".", "2", "4", "7", "5">>
F_lon    == <<"1", "2", "1", "5", "8", ".", "3", "4", "1", "6">>
F_speed  == <<"1", "0", ".", "0">>
F_course == <<"0", "9", "0", ".", "0">>

MkLine(tag, st, la, ns, lo, ew, sp, co) == <<tag, F_time, st, la, ns, lo, ew, sp, co, F_date>>

\* $GPRMC,123519,A,3723.2475,N,12158.3416,W,10.0,090.0,230394
ExampleLine == MkLine(TagGPRMC, <<"A">>, F_lat, <<"N">>, F_lon, <<"W">>, F_speed, F_course)

LatFields == {F_lat, <<"-">> \o F_lat, <<"0", "0", "5", "9", ".", "9", "9", "9", "9">>}
LonFields == {F_lon, <<"-", "0", "0", "1", "3", "0", ".", "5">>}
SpeedFields == {F_speed, <<"0", ".", "5">>}

\* accepted lines: the example with one or two fields changed
WellFormedLines ==
       {MkLine(TagGPRMC, <<"A">>, la, ns, F_lon, <<"W">>, F_speed, F_course) :
          la \in LatFields, ns \in {<<"N">>, <<"S">>}}
  \cup {MkLine(TagGPRMC, <<"A">>, F_lat, <<"N">>, lo, ew, F_speed, F_course) :
          lo \in LonFields, ew \in {<<"E">>, <<"W">>}}
  \cup {MkLine(TagGPRMC, <<"A">>, F_lat, <<"S">>, F_lon, <<"E">>, sp, F_course) :
          sp \in SpeedFields}

NotNumbers == {<<>>, <<"a", "b", "c">>, <<"1", ".", "2", ".", "3">>}

\* rejected lines: the example with one field spoiled, or cut short
MalformedLines ==
       {[ExampleLine EXCEPT ![1] = t] : t \in {<<"$", "G", "P", "G", "G", "A">>, TagGPRMC \o <<"X">>}}
  \cup {[ExampleLine EXCEPT ![3] = s] : s \in {<<"V">>, <<>>}}
  \cup {[ExampleLine EXCEPT ![i] = x] : i \in {4, 6, 8, 9}, x \in NotNumbers}
  \cup {SubSeq(ExampleLine, 1, n) : n \in 1..8}

\* the example with a hemisphere field that is no hemisphere letter
OddLetters == {<<"X">>, <<>>, <<"s">>}
OddHemisphereLines ==
       {[ExampleLine EXCEPT ![5] = ns] : ns \in OddLetters}
  \cup {[ExampleLine EXCEPT ![7] = ew] : ew \in OddLetters}

Lines == WellFormedLines \cup MalformedLines \cup OddHemisphereLines

\* ---- bounds of SpecParse
MaxParseClock == 35
LineGaps == {10, 25}

ParseIdle ==
  /\ line = None /\ parsed = None
  /\ speed_history = <<>> /\ course_history = <<>>

\* parse_gprmc on every line of the model, computed once
ParsedOf == [l \in Lines |-> parse_gprmc(l)]

\* One line of the receive loop of tcp_recv_thread:
\*   if line.startswith('$GPRMC'): parsed = parse_gprmc(line); if parsed: ...
ReceiveLine(l, gap) ==
  /\ clock + gap <= MaxParseClock
  /\ clock' = clock + gap
  /\ line' = Some(l)
  /\ parsed' = ParsedOf[l]
  /\ IF StartsWithGPRMC(l) /\ ParsedOf[l] # None
     THEN /\ latest_data' = ParsedOf[l]
          /\ speed_history' = add_sample(speed_history, clock', Val(ParsedOf[l]).speed)
          /\ course_history' = add_sample(course_history, clock', Val(ParsedOf[l]).course)
     ELSE UNCHANGED <<latest_data, speed_history, course_history>>
  /\ UNCHANGED <<smoothVars, termVars, appVars, yearVars, pureVars, ephVars>>

NextParse == \E l \in Lines, gap \in LineGaps : ReceiveLine(l, gap)

(***************************************************************************)
(* Solar terms: find_solar_term_time, calculate_solar_terms.               *)
(*                                                                         *)
(* A longitude is an integer in units of 1/UnitsPerDegree degree.  The     *)
(* ephemeris is a sun that moves uniformly: time is counted in ticks, one  *)
(* tick being the time the sun needs for one unit of longitude (about four *)
(* seconds), from 00:00 UTC of start_date (1 December of year - 1), and a  *)
(* day has sun.day ticks.                                                  *)
(***************************************************************************)
UnitsPerDegree == 20000
Deg(d) == d * UnitsPerDegree
FullCircle == Deg(360)
Tolerance == 2                      \* 0.0001 degree
max_iterations == 50

\* SOLAR_TERM_LONGITUDES, in the order of the dict (names transliterated)
SOLAR_TERM_LONGITUDES ==
  << <<315, "lichun">>,   <<330, "yushui">>,  <<345, "jingzhe">>,
     <<0, "chunfen">>,    <<15, "qingming">>, <<30, "guyu">>,
     <<45, "lixia">>,     <<60, "xiaoman">>,  <<75, "mangzhong">>,
     <<90, "xiazhi">>,    <<105, "xiaoshu">>, <<120, "dashu">>,
     <<135, "liqiu">>,    <<150, "chushu">>,  <<165, "bailu">>,
     <<180, "qiufen">>,   <<195, "hanlu">>,   <<210, "shuangjiang">>,
     <<225, "lidong">>,   <<240, "xiaoxue">>, <<255, "daxue">>,
     <<270, "dongzhi">>,  <<285, "xiaohan">>, <<300, "dahan">> >>

\* start_date = 1 December of year - 1, end_date = 1 February of year + 1
BufferDays == 31
YearDays == 365
ScanDays == BufferDays + YearDays + BufferDays

\* lon.degrees % 360 of the apparent sun at tick t
SunLon(t) == (sun.lon0 + t) % FullCircle
DayStart(d) == d * sun.day
Noon(d) == d * sun.day + (sun.day \div 2)

\* precise_time.year == year
InYear(t) == DayStart(BufferDays) <= t /\ t < DayStart(BufferDays + YearDays)

\* diff of one bisection step, after both wrap-around corrections
TermDiff(sun_lon, target_lon) ==
  LET lon0 == IF target_lon = 0 /\ sun_lon > Deg(180) THEN sun_lon - FullCircle ELSE sun_lon
      diff == lon0 - target_lon
  IN IF diff > Deg(180) THEN diff - FullCircle
     ELSE IF diff < -Deg(180) THEN diff + FullCircle
     ELSE diff

\* the for loop of find_solar_term_time at iteration k (1 .. max_iterations)
RECURSIVE Bisect(_, _, _, _)
Bisect(t_start, t_end, target_lon, k) ==
  LET t_mid == (t_start + t_end) \div 2
      diff  == TermDiff(SunLon(t_mid), target_lon)
  IN IF Abs(diff) < Tolerance THEN t_mid
     ELSE IF k = max_iterations THEN t_mid
     ELSE IF diff < 0 THEN Bisect(t_mid, t_end, target_lon, k + 1)
     ELSE Bisect(t_start, t_mid, target_lon, k + 1)

\* the number of passes of the for loop that Bisect makes
RECURSIVE BisectSteps(_, _, _, _)
BisectSteps(t_start, t_end, target_lon, k) ==
  LET t_mid == (t_start + t_end) \div 2
      diff  == TermDiff(SunLon(t_mid), target_lon)
  IN IF Abs(diff) < Tolerance THEN k
     ELSE IF k = max_iterations THEN k
     ELSE IF diff < 0 THEN BisectSteps(t_mid, t_end, target_lon, k + 1)
     ELSE BisectSteps(t_start, t_mid, target_lon, k + 1)

\* find_solar_term_time with a bracket of three days
find_solar_term_time_three_days(d, target_lon) ==
  Some(Bisect(DayStart(d), DayStart(d + 3), target_lon, 1))

\* find_solar_term_time(year, month, day, target_lon) for the day with index d
find_solar_term_time(d, target_lon) ==
  Some(Bisect(DayStart(d), DayStart(d + 2), target_lon, 1))

\* the three-way test that sets `crossed`
Crossed(prev, cur, target_lon) ==
  IF prev > Deg(350) /\ cur < Deg(10) THEN target_lon = 0 \/ target_lon >= Deg(345)
  ELSE IF prev < cur THEN prev <= target_lon /\ target_lon <= cur
  ELSE target_lon >= prev \/ target_lon <= cur

HasName(list, name) == \E i \in 1..Len(list) : list[i][1] = name

\* the append without the test for a name already present
AddTermAlways(list, name, precise_time) ==
  IF precise_time # None /\ InYear(Val(precise_time))
  THEN Append(list, <<name, Val(precise_time)>>)
  ELSE list

\* the append without the test of the year
AddTermAnyYear(list, name, precise_time) ==
  IF precise_time # None /\ ~HasName(list, name)
  THEN Append(list, <<name, Val(precise_time)>>)
  ELSE list

\* if precise_time and precise_time.year == year: if not any(name == term_name ...): append
AddTerm(list, name, precise_time) ==
  IF precise_time # None /\ InYear(Val(precise_time)) /\ ~HasName(list, name)
  THEN Append(list, <<name, Val(precise_time)>>)
  ELSE list

\* for target_lon, term_name in SOLAR_TERM_LONGITUDES.items(), from entry i on;
\* acc = [terms |-> solar_terms_dates, refined |-> the calls made]
RECURSIVE ScanTargets(_, _, _, _, _)
ScanTargets(i, prev, cur, d, acc) ==
  IF i > Len(SOLAR_TERM_LONGITUDES) THEN acc
  ELSE LET target_lon == Deg(SOLAR_TERM_LONGITUDES[i][1])
           term_name  == SOLAR_TERM_LONGITUDES[i][2]
       IN IF ~Crossed(prev, cur, target_lon) THEN ScanTargets(i + 1, prev, cur, d, acc)
          ELSE LET precise_time == find_solar_term_time(d - 1, target_lon)
               IN ScanTargets(i + 1, prev, cur, d,
                    [terms   |-> AddTerm(acc.terms, term_name, precise_time),
                     refined |-> acc.refined \cup {<<target_lon, precise_time>>}])

\* solar_terms_dates.sort(key=lambda x: x[1]): a stable sort by instant
RECURSIVE InsertByInstant(_, _)
InsertByInstant(sorted, e) ==
  IF sorted = <<>> THEN <<e>>
  ELSE IF sorted[Len(sorted)][2] <= e[2] THEN Append(sorted, e)
  ELSE Append(InsertByInstant(SubSeq(sorted, 1, Len(sorted) - 1), e), sorted[Len(sorted)])

RECURSIVE SortByInstant(_)
SortByInstant(list) ==
  IF list = <<>> THEN <<>>
  ELSE InsertByInstant(SortByInstant(SubSeq(list, 1, Len(list) - 1)), list[Len(list)])

\* ---- bounds of SpecTerms: the suns the scan is run on
MaxStartSteps == 3
StartDegrees == 248
\* longitude at 00:00 UTC of 1 December, in quarter degrees from 248 degrees
SunStarts == {Deg(StartDegrees) + k * (UnitsPerDegree \div 4) : k \in 0..MaxStartSteps}
\* ticks per day: 1 degree a day, and the mean 0.98565 degree a day
DayMotions == {UnitsPerDegree, 19713}
SunModels == {[lon0 |-> l, day |-> m] : l \in SunStarts, m \in DayMotions}

TermIdle ==
  /\ sun = None /\ scan_day = 0 /\ prev_lon = None
  /\ solar_terms_dates = <<>> /\ refined = {} /\ term_pc = "scan"

\* one pass of the while loop of calculate_solar_terms
ScanDay ==
  /\ term_pc = "scan"
  /\ scan_day < ScanDays
  /\ LET sun_lon == SunLon(Noon(scan_day))
         acc == IF prev_lon = None
                THEN [terms |-> solar_terms_dates, refined |-> {}]
                ELSE ScanTargets(1, Val(prev_lon), sun_lon, scan_day,
                                 [terms |-> solar_terms_dates, refined |-> {}])
     IN /\ solar_terms_dates' = acc.terms
        /\ refined' = acc.refined
        /\ prev_lon' = Some(sun_lon)
  /\ scan_day' = scan_day + 1
  /\ UNCHANGED <<sun, term_pc, clock, smoothVars, parseVars, latest_data, appVars, yearVars, pureVars, ephVars>>

\* the end of the loop: sort and return
ReturnTerms ==
  /\ term_pc = "scan"
  /\ scan_day >= ScanDays
  /\ solar_terms_dates' = SortByInstant(solar_terms_dates)
  /\ refined' = {}
  /\ term_pc' = "returned"
  /\ UNCHANGED <<sun, scan_day, prev_lon, clock, smoothVars, parseVars, latest_data, appVars, yearVars, pureVars, ephVars>>

NextTerms == ScanDay \/ ReturnTerms

\* ---- find_solar_term_time on its own (SpecFind): any start date, any target
StartDates == {0, 21, 111, 112, 300}

CallFind(d, target_lon) ==
  /\ fn_call = None
  /\ fn_call' = Some([d |-> d, target_lon |-> target_lon])
  /\ fn_result' = Some([precise_time |-> find_solar_term_time(d, target_lon),
                        steps |-> BisectSteps(DayStart(d), DayStart(d + 2), target_lon, 1)])
  /\ UNCHANGED <<ephVars, clock, smoothVars, parseVars, latest_data, termVars, appVars, yearVars>>

NextFind ==
  \E d \in StartDates, i \in 1..Len(SOLAR_TERM_LONGITUDES) :
     CallFind(d, Deg(SOLAR_TERM_LONGITUDES[i][1]))


(***************************************************************************)
(* The driver tick (update_display, update_minutely_astro,                 *)
(* _maybe_fire_event) and the telemetry thread (tcp_recv_thread).          *)
(*                                                                         *)
(* Local time is counted in ticks of half a second from the start of some  *)
(* minute.  The two threads interleave between any two accesses of the     *)
(* shared fields latest_data and is_connected.  The observer is at one of  *)
(* the positions 0 .. MaxPos - 1 of a track; both coordinates differ from  *)
(* position to position.                                                   *)
(***************************************************************************)
TicksPerSecond == 2
SecondsPerMinute == 60
FireTolerance == 3                  \* 1.5 s
TimerDelay == 2                     \* after(1000, ...)

\* ---- bounds of SpecApp
MaxPos == 2
NowStart == 116                     \* 2 s before the next minute
MaxNow == 121

Positions == 0..(MaxPos - 1)
LatOf(p) == 10 + p
LonOf(p) == 20 + p
Fix(p) == [latitude |-> LatOf(p), longitude |-> LonOf(p)]

Kinds == <<"moonrise", "moonset", "sunrise", "sunset">>
KindSet == {Kinds[i] : i \in 1..Len(Kinds)}

\* The days the model runs on: the instant of each event at position 0, or None
\* when the body does not rise or set on that day.
Skies ==
  { [moonrise |-> None, moonset |-> Some(117), sunrise |-> Some(120), sunset |-> None],
    [moonrise |-> Some(119), moonset |-> None, sunrise |-> None, sunset |-> Some(121)] }

\* next_rise_dt / next_set_dt of calculate_sun_events_skyfield and
\* calculate_moon_events_de421 at (lat, lon): a function of the position alone on
\* one day; one position further along the track the event is one second later.
EventInstant(kind, la, lo) ==
  IF sky[kind] = None THEN None
  ELSE Some(Val(sky[kind]) + (lo - LonOf(0)) * TicksPerSecond)

\* now_local.strftime('%Y-%m-%d %H:%M')
MinuteOf(t) == t \div (SecondsPerMinute * TicksPerSecond)
\* ev_dt.strftime('%Y-%m-%d %H:%M:%S')
SecondOf(t) == t \div TicksPerSecond

\* ev_dt is not None and abs((now_local - ev_dt).total_seconds()) <= 1.5
should_fire(t, ev_dt) == ev_dt # None /\ Abs(t - Val(ev_dt)) <= FireTolerance

\* f"sunrise-{self.next_sunrise_dt.strftime('%Y-%m-%d %H:%M:%S')}"
EventKey(kind, ev_dt) == <<kind, SecondOf(Val(ev_dt))>>

\* update_minutely_astro without its throttle
update_minutely_astro_unthrottled(la, lo) ==
  /\ astro_args' = Some(<<la, lo>>)
  /\ last_astro_calc_minute' = Some(MinuteOf(wall))
  /\ next_dt' = [k \in KindSet |-> EventInstant(k, la, lo)]
  /\ astro_calcs' = Append(astro_calcs, MinuteOf(wall))

\* update_minutely_astro(la, lo): the throttle, then the recomputation
update_minutely_astro(la, lo) ==
  /\ astro_args' = Some(<<la, lo>>)
  /\ IF last_astro_calc_minute = Some(MinuteOf(wall))
     THEN UNCHANGED <<last_astro_calc_minute, next_dt, astro_calcs>>
     ELSE /\ last_astro_calc_minute' = Some(MinuteOf(wall))
          /\ next_dt' = [k \in KindSet |-> EventInstant(k, la, lo)]
          /\ astro_calcs' = Append(astro_calcs, MinuteOf(wall))

AppFrame == UNCHANGED <<clock, smoothVars, parseVars, termVars, sky, yearVars, pureVars, ephVars,
                        cached, connection_lost_logged, conn_log>>
DriverOnly == UNCHANGED <<latest_data, is_connected, tcp_pc, wall>>

\* ---- the wall clock
AdvanceClock ==
  /\ wall < MaxNow
  /\ wall' = wall + 1
  /\ UNCHANGED <<latest_data, is_connected, tcp_pc, drv_pc, tick_due, lat, astro_args,
                 last_astro_calc_minute, next_dt, astro_calcs, now_local, fire_i, fire_key,
                 refreshed, fired_event_keys, event_log>>
  /\ AppFrame

\* ---- tcp_recv_thread
TcpFrame == UNCHANGED <<wall, drv_pc, tick_due, lat, astro_args, last_astro_calc_minute,
                        next_dt, astro_calcs, now_local, fire_i, fire_key, refreshed, fired_event_keys, event_log>>

\* sock.connect succeeds: if not self.is_connected: self.is_connected = True
TcpConnect ==
  /\ tcp_pc = "connect"
  /\ is_connected' = TRUE
  /\ tcp_pc' = "recv"
  /\ UNCHANGED latest_data
  /\ TcpFrame /\ AppFrame

\* a line that parse_gprmc accepts: self.latest_data = parsed
TcpFix(p) ==
  /\ tcp_pc = "recv"
  /\ latest_data' = Some(Fix(p))
  /\ UNCHANGED <<is_connected, tcp_pc>>
  /\ TcpFrame /\ AppFrame

\* recv returns b'' or raises: on to the finally block
TcpStreamEnd ==
  /\ tcp_pc = "recv"
  /\ tcp_pc' = "finally"
  /\ UNCHANGED <<latest_data, is_connected>>
  /\ TcpFrame /\ AppFrame

\* finally: if self.is_connected: self.is_connected = False
TcpClearConnected ==
  /\ tcp_pc = "finally"
  /\ is_connected' = FALSE
  /\ tcp_pc' = "clear_data"
  /\ UNCHANGED latest_data
  /\ TcpFrame /\ AppFrame

\* self.latest_data = None; then the disconnect record, sleep(1) and the next attempt
TcpClearData ==
  /\ tcp_pc = "clear_data"
  /\ latest_data' = None
  /\ tcp_pc' = "connect"
  /\ UNCHANGED is_connected
  /\ TcpFrame /\ AppFrame

\* ---- update_display
\* The timer fires: if self.latest_data and self.is_connected:
TickBegin ==
  /\ drv_pc = "idle"
  /\ wall >= tick_due
  /\ drv_pc' = IF latest_data # None /\ is_connected THEN "lat_str" ELSE "fire"
  /\ UNCHANGED <<tick_due, lat, astro_args, last_astro_calc_minute, next_dt, astro_calcs,
                 now_local, fire_i, fire_key, refreshed, fired_event_keys, event_log>>
  /\ DriverOnly /\ AppFrame

\* lat_str = dmm_format(self.latest_data['latitude'], True), and the same for lon_str:
\* a TypeError when latest_data is None by now; it leaves update_display
ReadForDisplay ==
  /\ drv_pc \in {"lat_str", "lon_str"}
  /\ drv_pc' = IF latest_data = None THEN "dead"
               ELSE IF drv_pc = "lat_str" THEN "lon_str" ELSE "lat"
  /\ UNCHANGED <<tick_due, lat, astro_args, last_astro_calc_minute, next_dt, astro_calcs,
                 now_local, fire_i, fire_key, refreshed, fired_event_keys, event_log>>
  /\ DriverOnly /\ AppFrame

\* lat = self.latest_data['latitude']
ReadLat ==
  /\ drv_pc = "lat"
  /\ IF latest_data = None
     THEN drv_pc' = "dead" /\ UNCHANGED lat
     ELSE drv_pc' = "lon" /\ lat' = Some(Val(latest_data).latitude)
  /\ UNCHANGED <<tick_due, astro_args, last_astro_calc_minute, next_dt, astro_calcs,
                 now_local, fire_i, fire_key, refreshed, fired_event_keys, event_log>>
  /\ DriverOnly /\ AppFrame

\* lon = self.latest_data['longitude']; self.update_minutely_astro(lat, lon)
ReadLonAndUpdate ==
  /\ drv_pc = "lon"
  /\ IF latest_data = None
     THEN /\ drv_pc' = "dead"
          /\ UNCHANGED <<lat, astro_args, last_astro_calc_minute, next_dt, astro_calcs>>
     ELSE /\ drv_pc' = "fire"
          /\ lat' = None
          /\ update_minutely_astro(Val(lat), Val(latest_data).longitude)
  /\ UNCHANGED <<tick_due, now_local, fire_i, fire_key, refreshed, fired_event_keys, event_log>>
  /\ DriverOnly /\ AppFrame

\* now_local_dt = datetime.now(); self._maybe_fire_event(now_local_dt)
FireBegin ==
  /\ drv_pc = "fire"
  /\ now_local' = Some(wall)
  /\ fire_i' = 1
  /\ drv_pc' = "should_fire"
  /\ UNCHANGED <<tick_due, lat, astro_args, last_astro_calc_minute, next_dt, astro_calcs,
                 fire_key, refreshed, fired_event_keys, event_log>>
  /\ DriverOnly /\ AppFrame

\* the block after block fire_i, or the end of _maybe_fire_event
NextBlock ==
  IF fire_i < Len(Kinds)
  THEN fire_i' = fire_i + 1 /\ drv_pc' = "should_fire"
  ELSE fire_i' = fire_i /\ drv_pc' = "arm"

\* fire_once(key, ...) up to the call of refresh_func
fire_once(key) ==
  IF key \in fired_event_keys
  THEN NextBlock /\ UNCHANGED <<fired_event_keys, fire_key, refreshed>>
  ELSE /\ fired_event_keys' = fired_event_keys \cup {key}
       /\ fire_key' = Some(key)
       /\ refreshed' = "no call"
       /\ drv_pc' = "refresh_if"
       /\ UNCHANGED fire_i

\* if should_fire(self.next_X_dt): key = ...; fire_once(key, ...)
FireCheck ==
  /\ drv_pc = "should_fire"
  /\ LET ev_dt == next_dt[Kinds[fire_i]]
     IN IF should_fire(Val(now_local), ev_dt)
        THEN fire_once(EventKey(Kinds[fire_i], ev_dt))
        ELSE NextBlock /\ UNCHANGED <<fired_event_keys, fire_key, refreshed>>
  /\ UNCHANGED <<tick_due, lat, astro_args, last_astro_calc_minute, next_dt, astro_calcs,
                 now_local, event_log>>
  /\ DriverOnly /\ AppFrame

\* refresh_func: if self.latest_data:
RefreshIf ==
  /\ drv_pc = "refresh_if"
  /\ drv_pc' = IF latest_data # None THEN "refresh_lat" ELSE "write_log"
  /\ UNCHANGED <<tick_due, lat, astro_args, last_astro_calc_minute, next_dt, astro_calcs,
                 now_local, fire_i, fire_key, refreshed, fired_event_keys, event_log>>
  /\ DriverOnly /\ AppFrame

\* the first argument self.latest_data['latitude']: a TypeError when latest_data is
\* None by now; it leaves fire_once and _maybe_fire_event and is caught in
\* update_display
RefreshLat ==
  /\ drv_pc = "refresh_lat"
  /\ IF latest_data = None
     THEN drv_pc' = "arm" /\ UNCHANGED lat
     ELSE drv_pc' = "refresh_lon" /\ lat' = Some(Val(latest_data).latitude)
  /\ UNCHANGED <<tick_due, astro_args, last_astro_calc_minute, next_dt, astro_calcs,
                 now_local, fire_i, fire_key, refreshed, fired_event_keys, event_log>>
  /\ DriverOnly /\ AppFrame

\* the second argument self.latest_data['longitude'], then update_minutely_astro
RefreshLonAndUpdate ==
  /\ drv_pc = "refresh_lon"
  /\ IF latest_data = None
     THEN /\ drv_pc' = "arm"
          /\ UNCHANGED <<lat, astro_args, last_astro_calc_minute, next_dt, astro_calcs,
                         refreshed>>
     ELSE /\ drv_pc' = "write_log"
          /\ lat' = None
          /\ update_minutely_astro(Val(lat), Val(latest_data).longitude)
          /\ refreshed' = IF last_astro_calc_minute = Some(MinuteOf(wall))
                          THEN "throttled" ELSE "ran"
  /\ UNCHANGED <<tick_due, now_local, fire_i, fire_key, fired_event_keys, event_log>>
  /\ DriverOnly /\ AppFrame

\* self._write_event_log(event_name, az_deg), the end of fire_once
WriteEventLog ==
  /\ drv_pc = "write_log"
  /\ event_log' = Append(event_log, <<Kinds[fire_i], Val(fire_key)>>)
  /\ fire_key' = None /\ refreshed' = "no call"
  /\ NextBlock
  /\ UNCHANGED <<tick_due, lat, astro_args, last_astro_calc_minute, next_dt, astro_calcs,
                 now_local, fired_event_keys>>
  /\ DriverOnly /\ AppFrame

\* self.after(1000, self.update_display); the locals end with the call
Arm ==
  /\ drv_pc = "arm"
  /\ tick_due' = wall + TimerDelay
  /\ drv_pc' = "idle"
  /\ lat' = None /\ now_local' = None /\ fire_i' = 1 /\ fire_key' = None
  /\ refreshed' = "no call"
  /\ UNCHANGED <<astro_args, last_astro_calc_minute, next_dt, astro_calcs, fired_event_keys, event_log>>
  /\ DriverOnly /\ AppFrame

NextApp ==
  \/ AdvanceClock
  \/ TcpConnect
  \/ \E p \in Positions : TcpFix(p)
  \/ TcpStreamEnd
  \/ TcpClearConnected
  \/ TcpClearData
  \/ TickBegin
  \/ ReadForDisplay
  \/ ReadLat
  \/ ReadLonAndUpdate
  \/ FireBegin
  \/ FireCheck
  \/ RefreshIf
  \/ RefreshLat
  \/ RefreshLonAndUpdate
  \/ WriteEventLog
  \/ Arm

\* self.cached_sunrise = self.cached_moonrise = "jisuanzhong..." (being computed)
CachedInitial == [sunrise |-> <<"str", "jisuanzhong">>, moonrise |-> <<"str", "jisuanzhong">>]

\* GPSApp.__init__: both threads started, update_display about to run
AppStart ==
  /\ wall = NowStart
  /\ is_connected = FALSE /\ tcp_pc = "connect"
  /\ drv_pc = "idle" /\ tick_due = NowStart
  /\ lat = None /\ astro_args = None
  /\ last_astro_calc_minute = None
  /\ next_dt = [k \in KindSet |-> None]
  /\ now_local = None /\ fire_i = 1 /\ fire_key = None
  /\ fired_event_keys = {} /\ event_log = <<>>
  /\ astro_calcs = <<>> /\ refreshed = "no call"
  /\ cached = CachedInitial
  /\ connection_lost_logged = FALSE /\ conn_log = <<>>

AppIdle == AppStart /\ sky = None

(***************************************************************************)
(* get_solar_term_info and its cache.  format_time_info calls it, and      *)
(* format_time_info is called by the driver tick (update_display,          *)
(* _write_event_log), by log_thread and, through log_connection_event, by  *)
(* tcp_recv_thread.  The function holds no lock: a thread can be preempted *)
(* between the test of last_solar_term_calc_year, the computation and the  *)
(* two assignments.                                                        *)
(***************************************************************************)
Threads == {"driver", "log", "telemetry"}

\* ---- bounds of SpecYear
FirstYear == 2024
MaxYears == 2

Years == FirstYear..(FirstYear + MaxYears - 1)

YearFrame == UNCHANGED <<clock, smoothVars, parseVars, latest_data, termVars, appVars, pureVars,
                         ephVars>>

\* today = datetime.today().date(); if last_solar_term_calc_year != today.year:
YearCheck(t) ==
  /\ year_pc[t] = "out"
  /\ today_year' = [today_year EXCEPT ![t] = Some(this_year)]
  /\ year_pc' = [year_pc EXCEPT ![t] =
                   IF last_solar_term_calc_year # Some(this_year) THEN "calc" ELSE "remind"]
  /\ UNCHANGED <<this_year, last_solar_term_calc_year, current_solar_terms, calc_runs>>
  /\ YearFrame

\* current_solar_terms = calculate_solar_terms(today.year)
YearCalc(t) ==
  /\ year_pc[t] = "calc"
  /\ calc_runs' = [calc_runs EXCEPT ![Val(today_year[t])] = @ + 1]
  /\ current_solar_terms' = today_year[t]
  /\ year_pc' = [year_pc EXCEPT ![t] = "set"]
  /\ UNCHANGED <<this_year, last_solar_term_calc_year, today_year>>
  /\ YearFrame

\* last_solar_term_calc_year = today.year
YearSet(t) ==
  /\ year_pc[t] = "set"
  /\ last_solar_term_calc_year' = today_year[t]
  /\ year_pc' = [year_pc EXCEPT ![t] = "remind"]
  /\ UNCHANGED <<this_year, current_solar_terms, today_year, calc_runs>>
  /\ YearFrame

\* return solar_term_reminder(today, current_solar_terms)
YearReturn(t) ==
  /\ year_pc[t] = "remind"
  /\ year_pc' = [year_pc EXCEPT ![t] = "out"]
  /\ today_year' = [today_year EXCEPT ![t] = None]
  /\ UNCHANGED <<this_year, last_solar_term_calc_year, current_solar_terms, calc_runs>>
  /\ YearFrame

\* midnight of 31 December
NewYear ==
  /\ this_year + 1 \in Years
  /\ this_year' = this_year + 1
  /\ UNCHANGED <<last_solar_term_calc_year, current_solar_terms, year_pc, today_year, calc_runs>>
  /\ YearFrame

NextYear ==
  \/ \E t \in Threads : YearCheck(t)
  \/ \E t \in Threads : YearCalc(t)
  \/ \E t \in Threads : YearSet(t)
  \/ \E t \in Threads : YearReturn(t)
  \/ NewYear

\* the module globals as the program starts
YearStart ==
  /\ last_solar_term_calc_year = None
  /\ current_solar_terms = None
  /\ year_pc = [t \in Threads |-> "out"]
  /\ today_year = [t \in Threads |-> None]
  /\ calc_runs = [y \in Years |-> 0]

YearIdle == this_year = FirstYear /\ YearStart

InitYear ==
  /\ clock = 0 /\ SmoothIdle /\ ParseIdle /\ TermIdle /\ latest_data = None /\ AppIdle
  /\ PureIdle
  /\ this_year \in Years /\ YearStart

(***************************************************************************)
(* The day window of the rise, set and transit searches.                   *)
(*                                                                         *)
(* Time is counted in hours; an instant stands for the hour it falls in.   *)
(* A naive local time is UTC plus offset_hours.  A search is described by  *)
(* the set of UTC hours it examines.                                       *)
(***************************************************************************)
HoursPerDay == 24

\* ---- bounds of SpecDay
FirstQueryHour == 24                \* 00:00 of day 1
MaxQueryHours == 48                 \* two local days
Offsets == {-8, 0, 8}               \* offset_hours

\* dt.replace(hour=0, minute=0, second=0, microsecond=0)
StartOfDay(dt) == (dt \div HoursPerDay) * HoursPerDay

\* _today_local(dt): <<start, end>>, end being 23:59:59
today_local(dt) == <<StartOfDay(dt), StartOfDay(dt) + (HoursPerDay - 1)>>

\* t0_utc, t1_utc = t0_local - offset, t1_local - offset; find_discrete and
\* meridian_transits examine t0 .. t1
LocalDayWindow(dt_local, offset_hours) ==
  LET t0_local == today_local(dt_local)[1]
      t1_local == today_local(dt_local)[2]
  IN (t0_local - offset_hours)..(t1_local - offset_hours)

\* calculate_moon_transit_de421: dt_utc = dt_local - offset, then every hour and
\* every second minute of datetime(dt_utc.year, dt_utc.month, dt_utc.day, ...)
UtcDayWindow(dt_local, offset_hours) ==
  LET dt_utc == dt_local - offset_hours
  IN StartOfDay(dt_utc)..(StartOfDay(dt_utc) + (HoursPerDay - 1))

Searches == {"calculate_sun_events_skyfield", "solar_transit_local_precise_skyfield",
             "calculate_moon_events_de421", "calculate_moon_transit_de421"}

\* the instants the search examines
SearchWindow(search, dt_local, offset_hours) ==
  IF search = "calculate_moon_transit_de421"
  THEN UtcDayWindow(dt_local, offset_hours)
  ELSE LocalDayWindow(dt_local, offset_hours)

\* one search for the query time that Init chose
RunSearch(search) ==
  /\ fn_call # None
  /\ fn_call' = Some([Val(fn_call) EXCEPT !.search = search])
  /\ fn_result' = Some(SearchWindow(search, Val(fn_call).dt_local, Val(fn_call).offset_hours))
  /\ UNCHANGED ephVars
  /\ PureFrame

NextDay == \E search \in Searches : RunSearch(search)

(***************************************************************************)
(* init_skyfield and the sun and moon calculators.                         *)
(*                                                                         *)
(* A calculator is a function of the globals that init_skyfield left and   *)
(* of what the ephemeris gives for the observer and the day (`day`): the   *)
(* rise and set transitions found in the day window, in time order, as     *)
(* <<time, ev, azimuth>> with ev = 1 for a rise; the altitude of the body  *)
(* at noon, where it culminates, and at midnight, in tenths of a degree;   *)
(* whether the computation raises an exception, and whether the separate   *)
(* altitude computation of sun_alt_az_skyfield does.  A returned text is   *)
(* <<"str", text>> (texts transliterated), a formatted time is             *)
(* <<"time", t>>.                                                          *)
(***************************************************************************)
Globals == <<"ephemeris", "ts", "earth", "moon", "sun">>
AllGlobals == {Globals[i] : i \in 1..Len(Globals)}

\* the steps of init_skyfield that can fail; "none" is the run that succeeds
InitFailures == {"exists", "loader", "timescale", "earth", "moon", "sun", "none"}

\* the globals assigned before the step that fails
AssignedBefore(failure) ==
  CASE failure \in {"exists", "loader"} -> {}
    [] failure = "timescale" -> {"ephemeris"}
    [] failure = "earth"     -> {"ephemeris", "ts"}
    [] failure = "moon"      -> {"ephemeris", "ts", "earth"}
    [] failure = "sun"       -> {"ephemeris", "ts", "earth", "moon"}
    [] OTHER                 -> AllGlobals

CalcFrame == UNCHANGED <<clock, smoothVars, parseVars, latest_data, termVars, appVars, yearVars>>

\* init_success = init_skyfield(), in GPSApp.__init__ before the threads start
InitSkyfield(failure) ==
  /\ init_pc = "start"
  /\ loaded' = AssignedBefore(failure)
  /\ init_pc' = IF failure = "none" THEN "ok" ELSE "failed"
  /\ UNCHANGED pureVars
  /\ CalcFrame

Str(text) == <<"str", text>>
TimeStr(t) == <<"time", t>>
\* _format_az_deg(deg)
format_az_deg(deg) == deg % 360
\* f"{ev_local.strftime('%H:%M:%S')} azimuth {_format_az_deg(az_deg)}"
EventStr(t, az_deg) == <<"at", t, format_az_deg(az_deg)>>

\* the body of a calculator raises: a global it uses is None, or the computation fails
Raises(uses, globals, day) == ~(uses \subseteq globals) \/ day.fault

\* sun_alt_az_skyfield(lat, lon, dt_local).alt at noon or midnight
sun_alt_az_skyfield(globals, day, at_noon) ==
  IF "ephemeris" \notin globals THEN None
  ELSE IF Raises({"ts", "earth", "sun"}, globals, day) \/ day.alt_fault THEN None
  ELSE Some(IF at_noon THEN day.alt_noon ELSE day.alt_midn)

NoEvents ==
  [rise_str |-> None, next_rise_dt |-> None, next_rise_az |-> None,
   set_str |-> None, next_set_dt |-> None, next_set_az |-> None]

\* one pass of `for t, ev in zip(times, events)` that keeps the last transition of
\* each kind
KeepLast(acc, tr) ==
  IF tr[2] = 1
  THEN [acc EXCEPT !.rise_str = Some(EventStr(tr[1], tr[3])),
                   !.next_rise_dt = Some(tr[1]), !.next_rise_az = Some(tr[3])]
  ELSE [acc EXCEPT !.set_str = Some(EventStr(tr[1], tr[3])),
                   !.next_set_dt = Some(tr[1]), !.next_set_az = Some(tr[3])]

\* one pass of `for t, ev in zip(times, events)`
KeepFirst(acc, tr) ==
  IF tr[2] = 1
  THEN IF acc.rise_str = None
       THEN [acc EXCEPT !.rise_str = Some(EventStr(tr[1], tr[3])),
                        !.next_rise_dt = Some(tr[1]), !.next_rise_az = Some(tr[3])]
       ELSE acc
  ELSE IF acc.set_str = None
       THEN [acc EXCEPT !.set_str = Some(EventStr(tr[1], tr[3])),
                        !.next_set_dt = Some(tr[1]), !.next_set_az = Some(tr[3])]
       ELSE acc

RECURSIVE ScanEvents(_, _, _)
ScanEvents(transitions, i, acc) ==
  IF i > Len(transitions) THEN acc
  ELSE ScanEvents(transitions, i + 1, KeepFirst(acc, transitions[i]))

\* the strings and the next_*_dt, next_*_az a calculator returns
SunEvents(rise_str, set_str, ev) ==
  <<rise_str, set_str, ev.next_rise_dt, ev.next_rise_az, ev.next_set_dt, ev.next_set_az>>

calculate_sun_events_skyfield(globals, day) ==
  IF "ephemeris" \notin globals
  THEN SunEvents(Str("weijiazai"), Str("weijiazai"), NoEvents)
  ELSE IF Raises({"ts", "earth", "sun"}, globals, day)
  THEN SunEvents(Str("jisuancuowu"), Str("jisuancuowu"), NoEvents)
  ELSE LET ev == ScanEvents(day.transitions, 1, NoEvents)
           alt_noon == sun_alt_az_skyfield(globals, day, TRUE)
           alt_midn == sun_alt_az_skyfield(globals, day, FALSE)
       IN IF ev.rise_str = None /\ ev.set_str = None
          THEN IF alt_noon = None \/ alt_midn = None
               THEN SunEvents(Str("jisuancuowu"), Str("jisuancuowu"), NoEvents)
               ELSE IF Val(alt_noon) > 0 /\ Val(alt_midn) > 0
               THEN SunEvents(Str("jizhou"), Str("jizhou"), NoEvents)
               ELSE IF Val(alt_noon) < 0 /\ Val(alt_midn) < 0
               THEN SunEvents(Str("jiye"), Str("jiye"), NoEvents)
               ELSE SunEvents(Str("jisuancuowu"), Str("jisuancuowu"), NoEvents)
          ELSE SunEvents(IF ev.rise_str = None THEN Str("wurichu") ELSE Val(ev.rise_str),
                         IF ev.set_str = None THEN Str("wuriluo") ELSE Val(ev.set_str), ev)

solar_transit_local_precise_skyfield(globals, day) ==
  IF "ephemeris" \notin globals THEN <<Str("dash"), None>>
  ELSE IF Raises({"ts", "earth", "sun"}, globals, day) THEN <<Str("dash"), None>>
  ELSE <<TimeStr(day.transit), Some(day.alt_noon)>>

calculate_moon_transit_de421(globals, day) ==
  IF "ephemeris" \notin globals THEN <<Str("weijiazai"), None>>
  ELSE IF Raises({"ts", "earth", "moon"}, globals, day) THEN <<Str("jisuancuowu"), None>>
  ELSE <<TimeStr(day.transit), Some(day.alt_noon)>>

MoonEvents(rise_str, set_str, transit, ev) ==
  <<rise_str, set_str, transit[1], transit[2],
    ev.next_rise_dt, ev.next_rise_az, ev.next_set_dt, ev.next_set_az>>

calculate_moon_events_de421(globals, day) ==
  IF "ephemeris" \notin globals
  THEN MoonEvents(Str("weijiazai"), Str("weijiazai"), <<Str("weijiazai"), None>>, NoEvents)
  ELSE IF Raises({"ts", "earth", "moon"}, globals, day)
  THEN MoonEvents(Str("jisuancuowu"), Str("jisuancuowu"), <<Str("jisuancuowu"), None>>, NoEvents)
  ELSE LET ev == ScanEvents(day.transitions, 1, NoEvents)
       IN MoonEvents(IF ev.rise_str = None THEN Str("buchu") ELSE Val(ev.rise_str),
                     IF ev.set_str = None THEN Str("buluo") ELSE Val(ev.set_str),
                     calculate_moon_transit_de421(globals, day), ev)

Calculators == {"calculate_sun_events_skyfield", "solar_transit_local_precise_skyfield",
                "calculate_moon_events_de421", "calculate_moon_transit_de421"}

Calculate(calc, globals, day) ==
  CASE calc = "calculate_sun_events_skyfield" -> calculate_sun_events_skyfield(globals, day)
    [] calc = "solar_transit_local_precise_skyfield" -> solar_transit_local_precise_skyfield(globals, day)
    [] calc = "calculate_moon_events_de421" -> calculate_moon_events_de421(globals, day)
    [] OTHER -> calculate_moon_transit_de421(globals, day)

\* ---- bounds of SpecCalc: the days the calculators are called on
MaxTransitions == 3
TransitionGap == 5                  \* hours between two transitions
\* risings_and_settings puts the horizon 34 arc minutes below 0 (refraction)
RiseSetHorizon == -6
\* altitudes, tenths of a degree: well below the horizon, between the horizon of
\* risings_and_settings and 0, well above
Altitudes == {-50, -3, 50}
TransitHour == 12

\* the azimuth of the i-th transition: a rise in the east, a set in the west
AzimuthOf(i, ev) == IF ev = 1 THEN 90 + i ELSE 270 - i

TransitionSeqs == UNION {[1..n -> {0, 1}] : n \in 0..MaxTransitions}
\* <<time, ev, azimuth>> of each transition, in time order
WithTimes(evs) ==
  [i \in 1..Len(evs) |-> <<i * TransitionGap, evs[i], AzimuthOf(i, evs[i])>>]

\* a day without a transition keeps the body on one side of the horizon of
\* risings_and_settings
Consistent(evs, alt_noon, alt_midn) ==
  evs = <<>> => ((alt_noon > RiseSetHorizon) <=> (alt_midn > RiseSetHorizon))

Days ==
  {day \in
     {[transitions |-> WithTimes(evs), alt_noon |-> n, alt_midn |-> mi, transit |-> TransitHour,
       fault |-> f, alt_fault |-> af] :
        evs \in TransitionSeqs, n \in Altitudes, mi \in Altitudes, f \in BOOLEAN, af \in BOOLEAN} :
     /\ Consistent(day.transitions, day.alt_noon, day.alt_midn)
     \* the midnight altitude and sun_alt_az_skyfield are only used on a day
     \* without a transition whose scan did not raise
     /\ day.transitions # <<>> => day.alt_midn = -50
     /\ day.alt_fault => (day.transitions = <<>> /\ ~day.fault)}

\* a call of a calculator by update_minutely_astro, any time after __init__
CallCalculator(calc, day) ==
  /\ init_pc # "start"
  /\ fn_call' = Some([calc |-> calc, day |-> day])
  /\ fn_result' = Some(Calculate(calc, loaded, day))
  /\ UNCHANGED ephVars
  /\ CalcFrame

NextCalc ==
  \/ \E failure \in InitFailures : InitSkyfield(failure)
  \/ \E calc \in Calculators, day \in Days : CallCalculator(calc, day)

(***************************************************************************)
(* solar_term_reminder(today, solar_terms).                                *)
(*                                                                         *)
(* `today` is a local date, counted in days; a term is <<name, instant>>,  *)
(* the instant a UTC time in hours, as calculate_solar_terms returns it.   *)
(***************************************************************************)
ReminderWindow == 30

\* term_datetime.date()
DateOf(term_datetime) == term_datetime \div HoursPerDay
\* local_dt = term_datetime + timedelta(hours=offset_hours)
LocalOf(term_datetime, offset_hours) == term_datetime + offset_hours
\* strftime("%H:%M:%S")
ClockStr(dt) == <<"time", dt % HoursPerDay>>
\* strftime("%m-%d %H:%M")
DateClockStr(dt) == <<"date", DateOf(dt), dt % HoursPerDay>>

\* the three texts
TodayForm(name, time_str) == <<"jinri jieqi", name, time_str>>
TomorrowForm(name, time_str) == <<"mingri jieqi", name, time_str>>
WithinForm(delta_days, name, time_str) == <<"ju xia ge jieqi", delta_days, name, time_str>>

\* the text for one term, None when the loop goes on to the next term
ReminderFor(today, term, offset_hours) ==
  LET delta_days == DateOf(term[2]) - today
      local_dt == LocalOf(term[2], offset_hours)
  IN IF delta_days = 0 THEN Some(TodayForm(term[1], ClockStr(local_dt)))
     ELSE IF delta_days = 1 THEN Some(TomorrowForm(term[1], ClockStr(local_dt)))
     ELSE IF 1 < delta_days /\ delta_days <= ReminderWindow
     THEN Some(WithinForm(delta_days, term[1], DateClockStr(local_dt)))
     ELSE None

\* the loop that returns the text of the last term that has one
RECURSIVE RemindLast(_, _, _, _)
RemindLast(today, solar_terms, offset_hours, i) ==
  IF i < 1 THEN Str("")
  ELSE IF ReminderFor(today, solar_terms[i], offset_hours) # None
  THEN Val(ReminderFor(today, solar_terms[i], offset_hours))
  ELSE RemindLast(today, solar_terms, offset_hours, i - 1)

solar_term_reminder_last(today, solar_terms, offset_hours) ==
  RemindLast(today, solar_terms, offset_hours, Len(solar_terms))

\* for term_name, term_datetime in solar_terms, from term i on
RECURSIVE RemindFrom(_, _, _, _)
RemindFrom(today, solar_terms, offset_hours, i) ==
  IF i > Len(solar_terms) THEN Str("")
  ELSE IF ReminderFor(today, solar_terms[i], offset_hours) # None
  THEN Val(ReminderFor(today, solar_terms[i], offset_hours))
  ELSE RemindFrom(today, solar_terms, offset_hours, i + 1)

solar_term_reminder(today, solar_terms, offset_hours) ==
  RemindFrom(today, solar_terms, offset_hours, 1)

\* ---- bounds of SpecRemind
MaxTerms == 3
TermDays == {0, 1, 2, 16, 31, 32, 47}
TermHours == {2, 20}
Todays == {1, 16}

TermInstants == {d * HoursPerDay + h : d \in TermDays, h \in TermHours}
\* the sorted lists of at most MaxTerms terms, named in the order of the year
TermLists ==
  {l \in UNION {[1..n -> TermInstants] : n \in 0..MaxTerms} :
     \A i \in 1..(Len(l) - 1) : l[i] < l[i + 1]}
NamedTerms(l) == [i \in 1..Len(l) |-> <<SOLAR_TERM_LONGITUDES[i][2], l[i]>>]

\* get_solar_term_info: return solar_term_reminder(today, current_solar_terms)
CallReminder(today, l, offset_hours) ==
  /\ fn_call = None
  /\ fn_call' = Some([today |-> today, solar_terms |-> NamedTerms(l),
                      offset_hours |-> offset_hours])
  /\ fn_result' = Some(solar_term_reminder(today, NamedTerms(l), offset_hours))
  /\ UNCHANGED ephVars
  /\ PureFrame

NextRemind ==
  \E today \in Todays, l \in TermLists, offset_hours \in Offsets :
     CallReminder(today, l, offset_hours)

(***************************************************************************)
(* The driver tick across midnight (SpecRollover).                         *)
(*                                                                         *)
(* update_display as one step: the recomputation of update_minutely_astro  *)
(* when there is a fix, then the four blocks of _maybe_fire_event.  Time   *)
(* is counted in half seconds from 00:00 of day 0.  The calculators return *)
(* the events of the local day of `now`; sky[kind] is the time of day of   *)
(* the event, the same on both days, or None.                              *)
(***************************************************************************)
TicksPerDay == HoursPerDay * 60 * SecondsPerMinute * TicksPerSecond

\* ---- bounds of SpecRollover: the driver runs from RollBefore ticks before a
\* midnight to RollAfter ticks after it, on two consecutive midnights
RollBefore == 4
RollAfter == 4

DayOfTick(t) == t \div TicksPerDay
\* the midnights that end day 0 and day 1
Midnights == {TicksPerDay, 2 * TicksPerDay}
NightOf(t) == CHOOSE mid \in Midnights : mid - RollBefore <= t /\ t <= mid + RollAfter

RollSkies ==
  { [moonrise |-> None, moonset |-> Some(1), sunrise |-> None, sunset |-> Some(TicksPerDay - 2)],
    [moonrise |-> Some(TicksPerDay - 3), moonset |-> None, sunrise |-> Some(2), sunset |-> None] }

\* next_rise_dt / next_set_dt of the calculators called with date_local = t
DayEvents(kind, t) ==
  IF sky[kind] = None THEN None
  ELSE Some(DayOfTick(t) * TicksPerDay + Val(sky[kind]))

\* how the body of update_minutely_astro ends: with results, with the error
\* sentinel of calculate_sun_events_skyfield, or in its except branch
Outcomes == {"ok", "sentinel", "raise"}

CachedError == [sunrise |-> Str("jisuancuowu"), moonrise |-> Str("jisuancuowu")]

\* sunrise_str and moonrise_str of the calculators called with date_local = t
CachedResults(t) ==
  [sunrise  |-> IF DayEvents("sunrise", t) = None THEN Str("wurichu")
                ELSE TimeStr(Val(DayEvents("sunrise", t)) % TicksPerDay),
   moonrise |-> IF DayEvents("moonrise", t) = None THEN Str("buchu")
                ELSE TimeStr(Val(DayEvents("moonrise", t)) % TicksPerDay)]

\* the cached texts and the next_*_dt after the body of update_minutely_astro
\* ran at t with the outcome
AstroBody(outcome, t, schedule) ==
  CASE outcome = "ok" ->
         [cached |-> CachedResults(t), next_dt |-> [k \in KindSet |-> DayEvents(k, t)]]
    [] outcome = "sentinel" ->
         [cached |-> [CachedResults(t) EXCEPT !.sunrise = Str("jisuancuowu")],
          next_dt |-> [k \in KindSet |->
                         IF k \in {"sunrise", "sunset"} THEN None ELSE DayEvents(k, t)]]
    [] OTHER -> [cached |-> CachedError, next_dt |-> schedule]

\* the throttle of update_minutely_astro passing only its first call
FirstCallOnly(last, t) == last = None

\* if self.last_astro_calc_minute == min_key: return
MinuteChanged(last, t) == last # Some(MinuteOf(t))

\* ev_dt.strftime('%Y-%m-%d %H:%M:%S'): the date and the second of the day
strftime_seconds(t) == <<t \div TicksPerDay, (t % TicksPerDay) \div TicksPerSecond>>
\* f"sunrise-{self.next_sunrise_dt.strftime('%Y-%m-%d %H:%M:%S')}"
DatedKey(kind, ev_dt) == <<kind, strftime_seconds(Val(ev_dt))>>

\* the four blocks of _maybe_fire_event from block i on; a record of the log is
\* <<kind, key, now, the instant it was written for>>
RECURSIVE FireBlocks(_, _, _, _)
FireBlocks(i, t, schedule, acc) ==
  IF i > Len(Kinds) THEN acc
  ELSE LET kind == Kinds[i]
           ev_dt == schedule[kind]
       IN IF should_fire(t, ev_dt) /\ DatedKey(kind, ev_dt) \notin acc.keys
          THEN FireBlocks(i + 1, t, schedule,
                 [keys |-> acc.keys \cup {DatedKey(kind, ev_dt)},
                  log  |-> Append(acc.log, <<kind, DatedKey(kind, ev_dt), t, Val(ev_dt)>>)])
          ELSE FireBlocks(i + 1, t, schedule, acc)

RollFrame ==
  UNCHANGED <<clock, smoothVars, parseVars, termVars, sky, yearVars, pureVars, ephVars,
              tcp_pc, drv_pc, lat, astro_args, now_local, fire_i, fire_key, refreshed,
              connection_lost_logged, conn_log>>

\* the wall clock, inside one night
RollAdvance ==
  /\ wall < NightOf(wall) + RollAfter
  /\ wall' = wall + 1
  /\ UNCHANGED <<latest_data, is_connected, tick_due, last_astro_calc_minute, next_dt,
                 fired_event_keys, event_log, astro_calcs, cached>>
  /\ RollFrame

\* the day between two nights: no event is near, and the ticks of a driver without
\* a fix change nothing
RollSkipDay ==
  /\ wall = NightOf(wall) + RollAfter
  /\ NightOf(wall) + TicksPerDay \in Midnights
  /\ latest_data = None
  /\ wall' = NightOf(wall) + TicksPerDay - RollBefore
  /\ tick_due' = wall'
  /\ UNCHANGED <<latest_data, is_connected, last_astro_calc_minute, next_dt,
                 fired_event_keys, event_log, astro_calcs, cached>>
  /\ RollFrame

\* tcp_recv_thread: connected, and a fix arrived
RollFix ==
  /\ latest_data' = Some(Fix(0))
  /\ is_connected' = TRUE
  /\ UNCHANGED <<wall, tick_due, last_astro_calc_minute, next_dt, fired_event_keys, event_log,
                 astro_calcs, cached>>
  /\ RollFrame

\* tcp_recv_thread: the stream ended, is_connected = False and latest_data = None
RollDisconnect ==
  /\ is_connected
  /\ latest_data' = None
  /\ is_connected' = FALSE
  /\ UNCHANGED <<wall, tick_due, last_astro_calc_minute, next_dt, fired_event_keys, event_log,
                 astro_calcs, cached>>
  /\ RollFrame

\* update_display; astro_calcs keeps <<minute, outcome>> of the last two runs of the
\* body of update_minutely_astro
RollTick(outcome) ==
  /\ wall >= tick_due
  /\ LET recompute == /\ latest_data # None /\ is_connected
                      /\ MinuteChanged(last_astro_calc_minute, wall)
         body == IF recompute THEN AstroBody(outcome, wall, next_dt)
                 ELSE [cached |-> cached, next_dt |-> next_dt]
         fired == FireBlocks(1, wall, body.next_dt,
                             [keys |-> fired_event_keys, log |-> event_log])
     IN /\ next_dt' = body.next_dt
        /\ cached' = body.cached
        /\ last_astro_calc_minute' = IF recompute THEN Some(MinuteOf(wall))
                                     ELSE last_astro_calc_minute
        /\ astro_calcs' = IF recompute
                          THEN (IF astro_calcs = <<>> THEN <<>>
                                ELSE <<astro_calcs[Len(astro_calcs)]>>)
                                  \o << <<MinuteOf(wall), outcome>> >>
                          ELSE astro_calcs
        /\ fired_event_keys' = fired.keys
        /\ event_log' = fired.log
  /\ tick_due' = wall + TimerDelay
  /\ UNCHANGED <<wall, latest_data, is_connected>>
  /\ RollFrame

NextRollover ==
  \/ RollAdvance
  \/ RollSkipDay
  \/ RollFix
  \/ RollDisconnect
  \/ \E outcome \in Outcomes : RollTick(outcome)

(***************************************************************************)
(* add_sample in the telemetry thread against average in another thread    *)
(* (SpecRace).                                                             *)
(*                                                                         *)
(* Both work on the same deque without a lock.  The interpreter can switch *)
(* threads between the append and each popleft of add_sample, and between  *)
(* the steps of average: the test `not history`, each next() of the        *)
(* generator that sum() drains, and len(history).  next() on a deque       *)
(* iterator raises RuntimeError when the deque was mutated since the       *)
(* iterator was made; a mutated deque never has the contents it had        *)
(* before, so the iterator keeps the contents it started from.  fn_call is *)
(* the frame of the running average:  the contents at the start, the       *)
(* number of values drained and their sum.                                 *)
(***************************************************************************)
\* ---- bounds of SpecRace
MaxRaceSamples == 3
RaceGaps == {5, 21}
RaceValues == {10, 30}

RaceFrame == UNCHANGED <<parseVars, latest_data, termVars, appVars, yearVars, ephVars>>

\* add_sample has appended and not yet evicted every expired sample
Evicting == history # <<>> /\ clock - history[1][1] > SMOOTH_WINDOW

\* now = time.time(); history.append((now, value))
RaceAppend(gap, v) ==
  /\ ~Evicting
  /\ Len(inserted) < MaxRaceSamples
  /\ clock' = clock + gap
  /\ history' = Append(history, <<clock', v>>)
  /\ inserted' = Append(inserted, <<clock', v>>)
  /\ UNCHANGED pureVars
  /\ RaceFrame

\* one pass of the while loop: history.popleft()
RacePopleft ==
  /\ Evicting
  /\ history' = Tail(history)
  /\ UNCHANGED <<clock, inserted, pureVars>>
  /\ RaceFrame

\* average(history): if not history: return 0.0; else the generator is made
AverageBegin ==
  /\ fn_call = None
  /\ IF history = <<>>
     THEN fn_call' = None /\ fn_result' = Some(<<"mean", 0, 1>>)
     ELSE fn_call' = Some([started |-> history, drained |-> 0, sum |-> 0]) /\ fn_result' = None
  /\ UNCHANGED <<clock, history, inserted>>
  /\ RaceFrame

\* one next() of the generator, or the StopIteration that ends sum()
AverageNext ==
  /\ fn_call # None
  /\ Val(fn_call).drained <= Len(Val(fn_call).started)
  /\ LET frame == Val(fn_call)
     IN IF history # frame.started
        THEN fn_call' = None /\ fn_result' = Some(<<"RuntimeError">>)
        ELSE /\ fn_result' = None
             /\ fn_call' = Some([frame EXCEPT
                   !.drained = frame.drained + 1,
                   !.sum = IF frame.drained < Len(history)
                           THEN frame.sum + history[frame.drained + 1][2]
                           ELSE frame.sum])
  /\ UNCHANGED <<clock, history, inserted>>
  /\ RaceFrame

\* ... / len(history)
AverageLen ==
  /\ fn_call # None
  /\ Val(fn_call).drained > Len(Val(fn_call).started)
  /\ fn_result' = Some(<<"mean", Val(fn_call).sum, Len(history)>>)
  /\ fn_call' = None
  /\ UNCHANGED <<clock, history, inserted>>
  /\ RaceFrame

NextRace ==
  \/ \E gap \in RaceGaps, v \in RaceValues : RaceAppend(gap, v)
  \/ RacePopleft
  \/ AverageBegin
  \/ AverageNext
  \/ AverageLen

(***************************************************************************)
(* tcp_recv_thread and the records it hands to log_connection_event.       *)
(*                                                                         *)
(* One pass of the outer while loop is: the connection attempt, the        *)
(* `if not self.is_connected` block, the receive loop, the finally block   *)
(* and time.sleep(1).  The thread is the only writer of is_connected,      *)
(* connection_lost_logged and latest_data.  log_connection_event catches   *)
(* its own exceptions, so a call of it always returns; conn_log records    *)
(* the calls.  clock counts the sleeps.                                    *)
(***************************************************************************)
\* ---- bounds of SpecConn
MaxReconnects == 4

ConnFrame ==
  UNCHANGED <<smoothVars, parseVars, termVars, yearVars, pureVars, ephVars,
              wall, sky, drv_pc, tick_due, lat, astro_args, last_astro_calc_minute,
              next_dt, now_local, fire_i, fire_key, fired_event_keys, event_log,
              astro_calcs, refreshed, cached>>

\* the `if not self.is_connected` block without the reset of connection_lost_logged
mark_connected_keep_flag ==
  IF ~is_connected
  THEN /\ is_connected' = TRUE
       /\ conn_log' = Append(conn_log, "connect")
       /\ UNCHANGED connection_lost_logged
  ELSE UNCHANGED <<is_connected, connection_lost_logged, conn_log>>

\* if not self.is_connected: self.is_connected = True;
\* self.connection_lost_logged = False; self.log_connection_event('connect')
mark_connected ==
  IF ~is_connected
  THEN /\ is_connected' = TRUE
       /\ connection_lost_logged' = FALSE
       /\ conn_log' = Append(conn_log, "connect")
  ELSE UNCHANGED <<is_connected, connection_lost_logged, conn_log>>

\* socket.socket, settimeout, sock.connect: it returns (ok) or raises
ConnAttempt(ok) ==
  /\ tcp_pc = "connect"
  /\ tcp_pc' = IF ok THEN "connected" ELSE "finally"
  /\ UNCHANGED <<clock, latest_data, is_connected, connection_lost_logged, conn_log>>
  /\ ConnFrame

\* after sock.connect returned: the `if not self.is_connected` block
ConnMark ==
  /\ tcp_pc = "connected"
  /\ mark_connected
  /\ tcp_pc' = "recv"
  /\ UNCHANGED <<clock, latest_data>>
  /\ ConnFrame

\* a line that parse_gprmc accepts: self.latest_data = parsed
ConnFix(p) ==
  /\ tcp_pc = "recv"
  /\ latest_data' = Some(Fix(p))
  /\ UNCHANGED <<clock, tcp_pc, is_connected, connection_lost_logged, conn_log>>
  /\ ConnFrame

\* recv returns b'' (break) or raises (except Exception): on to the finally block
ConnStreamEnd ==
  /\ tcp_pc = "recv"
  /\ tcp_pc' = "finally"
  /\ UNCHANGED <<clock, latest_data, is_connected, connection_lost_logged, conn_log>>
  /\ ConnFrame

\* finally: if self.is_connected: ... if not self.connection_lost_logged: ...
ConnFinally ==
  /\ tcp_pc = "finally"
  /\ IF is_connected
     THEN /\ is_connected' = FALSE
          /\ latest_data' = None
          /\ conn_log' = IF ~connection_lost_logged
                         THEN Append(conn_log, "disconnect") ELSE conn_log
          /\ connection_lost_logged' = TRUE
     ELSE UNCHANGED <<is_connected, latest_data, connection_lost_logged, conn_log>>
  /\ tcp_pc' = "sleep"
  /\ UNCHANGED clock
  /\ ConnFrame

\* if self.running: time.sleep(1), then the next pass of the while loop
ConnSleep ==
  /\ tcp_pc = "sleep"
  /\ clock < MaxReconnects
  /\ clock' = clock + 1
  /\ tcp_pc' = "connect"
  /\ UNCHANGED <<latest_data, is_connected, connection_lost_logged, conn_log>>
  /\ ConnFrame

NextConn ==
  \/ \E ok \in BOOLEAN : ConnAttempt(ok)
  \/ ConnMark
  \/ \E p \in Positions : ConnFix(p)
  \/ ConnStreamEnd
  \/ ConnFinally
  \/ ConnSleep

(***************************************************************************)
(* dmm_format.  dd is a latitude or longitude in units of 1/Scale          *)
(* arc-minute, as parse_gprmc returns it.  The result is the sequence of   *)
(* its characters; the degree sign is the one character "deg".             *)
(***************************************************************************)
MinutesPerDegree == 60 * Scale

\* the decimal digits of n >= 0, zero-padded to at least `width` digits
RECURSIVE ZeroPad(_, _)
ZeroPad(n, width) ==
  IF n < 10 /\ width <= 1 THEN <<DigitChars[n + 1]>>
  ELSE ZeroPad(n \div 10, width - 1) \o <<DigitChars[(n % 10) + 1]>>

\* the rounding of the format spec .3f: minutes in units of 1/Scale to the
\* nearest thousandth, a tie to the even one
RoundMilli(minutes) ==
  LET unit == Scale \div 1000
      q == minutes \div unit
      r == minutes % unit
  IN IF 2 * r > unit \/ (2 * r = unit /\ q % 2 = 1) THEN q + 1 ELSE q

\* f"{minutes:06.3f}"
FormatMinutes(minutes) ==
  LET milli == RoundMilli(minutes)
  IN ZeroPad(milli \div 1000, 2) \o <<".">> \o ZeroPad(milli % 1000, 3)

dmm_format(dd, is_lat) ==
  LET deg == Abs(dd) \div MinutesPerDegree
      minutes == Abs(dd) - deg * MinutesPerDegree
      direction == IF is_lat THEN (IF dd >= 0 THEN "N" ELSE "S")
                   ELSE (IF dd >= 0 THEN "E" ELSE "W")
      deg_fmt == IF is_lat THEN ZeroPad(deg, 2) ELSE ZeroPad(deg, 3)
  IN deg_fmt \o <<"deg">> \o FormatMinutes(minutes) \o <<"'", direction>>

\* ---- the values SpecDmm formats: whole degrees, minutes next to a whole
\* ---- minute and next to a whole degree, both signs, and the two ends
MinuteSamples == {0, 4, 6, 232475, 300000, 304996, 599994, 599996, 599999}
LatDegrees == {0, 37, 89}
LonDegrees == {0, 121, 179}
Latitudes ==
       {sg * (d * MinutesPerDegree + mi) : sg \in {1, -1}, d \in LatDegrees, mi \in MinuteSamples}
  \cup {90 * MinutesPerDegree, -90 * MinutesPerDegree}
Longitudes ==
       {sg * (d * MinutesPerDegree + mi) : sg \in {1, -1}, d \in LonDegrees, mi \in MinuteSamples}
  \cup {180 * MinutesPerDegree, -180 * MinutesPerDegree}

CallDmm(dd, is_lat) ==
  /\ fn_call = None
  /\ fn_call' = Some([dd |-> dd, is_lat |-> is_lat])
  /\ fn_result' = Some(dmm_format(dd, is_lat))
  /\ UNCHANGED ephVars
  /\ PureFrame

NextDmm ==
  \/ \E dd \in Latitudes : CallDmm(dd, TRUE)
  \/ \E dd \in Longitudes : CallDmm(dd, FALSE)

(***************************************************************************)
(* The phase name in calculate_moon_phase_de421.                           *)
(*                                                                         *)
(* phase_ratio is counted in units of 1/PhaseUnits, so that 0.0625 is      *)
(* Sixteenth units; lon_diff = (moon_lon - sun_lon) % 360 keeps it in      *)
(* [0, 1).  Names transliterated.                                          *)
(***************************************************************************)
Sixteenth == 100
PhaseUnits == 16 * Sixteenth

\* the if / elif chain with <= in place of <
phase_name_inclusive(phase_ratio) ==
  IF phase_ratio <= Sixteenth THEN <<"xinyue", "bukejian">>
  ELSE IF phase_ratio <= 3 * Sixteenth THEN <<"emeiyue", "youbian liang">>
  ELSE IF phase_ratio <= 5 * Sixteenth THEN <<"shangxianyue", "youbian liang">>
  ELSE IF phase_ratio <= 7 * Sixteenth THEN <<"yingtuyue", "youbian liang">>
  ELSE IF phase_ratio <= 9 * Sixteenth THEN <<"manyue", "quan liang">>
  ELSE IF phase_ratio <= 11 * Sixteenth THEN <<"kuituyue", "zuobian liang">>
  ELSE IF phase_ratio <= 13 * Sixteenth THEN <<"xiaxianyue", "zuobian liang">>
  ELSE IF phase_ratio <= 15 * Sixteenth THEN <<"canyue", "zuobian liang">>
  ELSE <<"xinyue", "bukejian">>

\* <<phase_name, brightness_side>> of the if / elif chain
phase_name(phase_ratio) ==
  IF phase_ratio < Sixteenth THEN <<"xinyue", "bukejian">>
  ELSE IF phase_ratio < 3 * Sixteenth THEN <<"emeiyue", "youbian liang">>
  ELSE IF phase_ratio < 5 * Sixteenth THEN <<"shangxianyue", "youbian liang">>
  ELSE IF phase_ratio < 7 * Sixteenth THEN <<"yingtuyue", "youbian liang">>
  ELSE IF phase_ratio < 9 * Sixteenth THEN <<"manyue", "quan liang">>
  ELSE IF phase_ratio < 11 * Sixteenth THEN <<"kuituyue", "zuobian liang">>
  ELSE IF phase_ratio < 13 * Sixteenth THEN <<"xiaxianyue", "zuobian liang">>
  ELSE IF phase_ratio < 15 * Sixteenth THEN <<"canyue", "zuobian liang">>
  ELSE <<"xinyue", "bukejian">>

\* phase_ratio = lon_diff / 360.0 with lon_diff in [0, 360)
PhaseRatios == 0..(PhaseUnits - 1)

CallPhase(phase_ratio) ==
  /\ fn_call = None
  /\ fn_call' = Some([phase_ratio |-> phase_ratio])
  /\ fn_result' = Some(phase_name(phase_ratio))
  /\ UNCHANGED ephVars
  /\ PureFrame

NextPhase == \E phase_ratio \in PhaseRatios : CallPhase(phase_ratio)

InitApp ==
  /\ clock = 0 /\ SmoothIdle /\ ParseIdle /\ TermIdle /\ latest_data = None /\ YearIdle /\ PureIdle
  /\ AppStart /\ sky \in Skies

InitTerms ==
  /\ clock = 0 /\ SmoothIdle /\ ParseIdle /\ latest_data = None /\ AppIdle /\ YearIdle /\ PureIdle
  /\ sun \in SunModels /\ scan_day = 0 /\ prev_lon = None
  /\ solar_terms_dates = <<>> /\ refined = {} /\ term_pc = "scan"

OthersIdle ==
  /\ clock = 0 /\ SmoothIdle /\ ParseIdle /\ latest_data = None /\ TermIdle /\ AppIdle
  /\ YearIdle

InitFind == InitTerms

InitRollover ==
  /\ clock = 0 /\ SmoothIdle /\ ParseIdle /\ TermIdle /\ latest_data = None /\ YearIdle /\ PureIdle
  /\ sky \in RollSkies
  /\ wall = TicksPerDay - RollBefore /\ tick_due = wall
  /\ is_connected = FALSE /\ tcp_pc = "connect" /\ drv_pc = "idle"
  /\ lat = None /\ astro_args = None /\ last_astro_calc_minute = None
  /\ next_dt = [k \in KindSet |-> None]
  /\ now_local = None /\ fire_i = 1 /\ fire_key = None
  /\ fired_event_keys = {} /\ event_log = <<>>
  /\ astro_calcs = <<>> /\ refreshed = "no call"
  /\ cached = CachedInitial
  /\ connection_lost_logged = FALSE /\ conn_log = <<>>

InitCalc == OthersIdle /\ PureIdle
InitRemind == OthersIdle /\ PureIdle
InitPhase == OthersIdle /\ PureIdle
InitDmm == OthersIdle /\ PureIdle

InitDay ==
  /\ OthersIdle /\ loaded = {} /\ init_pc = "start"
  /\ \E dt \in FirstQueryHour..(FirstQueryHour + MaxQueryHours - 1), off \in Offsets :
       fn_call = Some([search |-> "none", dt_local |-> dt, offset_hours |-> off])
  /\ fn_result = None

InitSmooth == clock = 0 /\ SmoothIdle /\ ParseIdle /\ latest_data = None /\ TermIdle /\ AppIdle /\ YearIdle /\ PureIdle
InitParse  == clock = 0 /\ SmoothIdle /\ ParseIdle /\ latest_data = None /\ TermIdle /\ AppIdle /\ YearIdle /\ PureIdle
InitRace   == InitSmooth
InitConn   == InitSmooth

SpecSmooth == InitSmooth /\ [][NextSmooth]_vars
SpecParse  == InitParse /\ [][NextParse]_vars
SpecTerms  == InitTerms /\ [][NextTerms]_vars
SpecApp    == InitApp /\ [][NextApp]_vars
SpecYear   == InitYear /\ [][NextYear]_vars
SpecDay    == InitDay /\ [][NextDay]_vars
SpecCalc   == InitCalc /\ [][NextCalc]_vars
SpecRemind == InitRemind /\ [][NextRemind]_vars
SpecPhase  == InitPhase /\ [][NextPhase]_vars
SpecFind   == InitFind /\ [][NextFind]_vars
SpecRollover == InitRollover /\ [][NextRollover]_vars
SpecRace   == InitRace /\ [][NextRace]_vars
SpecConn   == InitConn /\ [][NextConn]_vars
SpecDmm    == InitDmm /\ [][NextDmm]_vars

(***************************************************************************)
(* Claims on the smoothing window.                                         *)
(***************************************************************************)
Timestamps(h) == [i \in 1..Len(h) |-> h[i][1]]
NotExpired(log, now) == SelectSeq(log, LAMBDA e : now - e[1] <= SMOOTH_WINDOW)

\* C6: after every add_sample the window holds exactly the inserted samples that
\* are at most SMOOTH_WINDOW seconds older than the newest one (a sample exactly
\* 20 s old is kept, an older one is gone), and after insertions at
\* t = 0, 5, ..., 25 it holds exactly the samples of t = 5 .. 25.
C6_WindowBound ==
  /\ \A i \in 1..Len(history) : clock - history[i][1] <= SMOOTH_WINDOW
  /\ history = NotExpired(inserted, clock)
  /\ Timestamps(inserted) = <<0, 5, 10, 15, 20, 25>>
       => Timestamps(history) = <<5, 10, 15, 20, 25>>

C6_Witness ==
  /\ Timestamps(inserted) = <<0, 5, 10, 15, 20, 25>>
  /\ Len(history) = 5
  /\ clock - history[1][1] = SMOOTH_WINDOW

(***************************************************************************)
(* Claims on parse_gprmc.                                                  *)
(***************************************************************************)
NotNumeric(l, i) == HasPart(l, i) /\ ParseFloat(Part(l, i)) = None

\* the lines the documentation says are rejected
Rejectable(l) ==
  \/ Part(l, 0) # TagGPRMC
  \/ Len(l) < 9
  \/ Part(l, 2) # <<"A">>
  \/ \E i \in {3, 5, 7, 8} : NotNumeric(l, i)

\* C7: a line with another tag, a validity flag other than A, too few fields or a
\* non-numeric latitude, longitude, speed or course makes parse_gprmc return None
\* (no exception leaves it), and the telemetry thread then changes neither
\* latest_data nor the two smoothing windows.
C7_RejectedLinesDropped ==
  [][(line' # None /\ Rejectable(Val(line')))
       => (parsed' = None /\ UNCHANGED <<latest_data, speed_history, course_history>>)]_vars

C7_Witness ==
  /\ line # None /\ (\E i \in {3, 5, 7, 8} : NotNumeric(Val(line), i))
  /\ parsed = None
  /\ latest_data # None /\ speed_history # <<>>

\* floor(raw / 100) + (raw mod 100) / 60, negated for the given hemisphere
FloorDegMin(raw, dir, negative_dir) ==
  LET dd == (raw \div (100 * Scale)) * 60 * Scale + (raw % (100 * Scale))
  IN IF dir = negative_dir THEN -dd ELSE dd

\* int(raw / 100) + (raw mod 100) / 60, negated for the given hemisphere
TruncDegMin(raw, dir, negative_dir) ==
  LET dd == TruncDiv(raw, 100 * Scale) * 60 * Scale + (raw % (100 * Scale))
  IN IF dir = negative_dir THEN -dd ELSE dd

Field(i) == Part(Val(line), i)
Number(i) == Val(ParseFloat(Field(i)))

Degree == 60 * Scale

C9_NamesUnique ==
  \A i, j \in 1..Len(solar_terms_dates) :
    solar_terms_dates[i][1] = solar_terms_dates[j][1] => i = j

\* a target flagged again (its refined instant lies in the year) while its name is
\* already in the list, with the list complete at the end
FlaggedAgain ==
  \E r \in refined : \E i \in 1..Len(SOLAR_TERM_LONGITUDES) :
    /\ Deg(SOLAR_TERM_LONGITUDES[i][1]) = r[1]
    /\ InYear(Val(r[2]))
    /\ \E n \in 1..Len(solar_terms_dates) :
         /\ solar_terms_dates[n][1] = SOLAR_TERM_LONGITUDES[i][2]
         /\ solar_terms_dates[n][2] # Val(r[2])

C9_Witness == FlaggedAgain /\ Len(solar_terms_dates) >= 3

\* the difference of two longitudes folded into (-180, 180] degrees
FoldedDiff(a, b) ==
  LET d == (a - b) % FullCircle
  IN IF d > Deg(180) THEN d - FullCircle ELSE d

\* C10: every instant that find_solar_term_time returns for a target that
\* calculate_solar_terms flagged as crossed is an instant at which the sun's
\* longitude is less than 0.0001 degree from the target.
C10_RefinedWithinTolerance ==
  \A r \in refined :
    r[2] # None => Abs(FoldedDiff(SunLon(Val(r[2])), r[1])) < Tolerance

\* the target lies on the arc that the sun ran through from prev to cur
Between(prev, cur, target_lon) ==
  (target_lon - prev) % FullCircle <= (cur - prev) % FullCircle

\* the targets that the last pass of the scan flagged as crossed
Flagged == {r[1] : r \in refined}

\* C22: for every pair of consecutive daily samples (prev, cur), a target is flagged
\* as crossed exactly when it lies between prev and cur; at the wrap (prev > 350 and
\* cur < 10) only the targets >= 345 or = 0 are candidates.
C22_FlaggedIffBetween ==
  (term_pc = "scan" /\ scan_day >= 2) =>
    LET prev == SunLon(Noon(scan_day - 2))
        cur  == SunLon(Noon(scan_day - 1))
    IN \A i \in 1..Len(SOLAR_TERM_LONGITUDES) :
         LET target_lon == Deg(SOLAR_TERM_LONGITUDES[i][1])
             candidate  == (prev > Deg(350) /\ cur < Deg(10))
                              => (target_lon = 0 \/ target_lon >= Deg(345))
         IN (target_lon \in Flagged) <=> (candidate /\ Between(prev, cur, target_lon))

\* C23: every entry of the list of calculate_solar_terms(year) has an instant in
\* the year (the crossings found in the buffers before and after it are dropped),
\* and the list returned is in non-decreasing order of instant.
C23_InYearAndSorted ==
  /\ \A i \in 1..Len(solar_terms_dates) : InYear(solar_terms_dates[i][2])
  /\ term_pc = "returned" =>
       \A i \in 1..(Len(solar_terms_dates) - 1) :
          solar_terms_dates[i][2] <= solar_terms_dates[i + 1][2]

\* the list of a whole year is returned; its winter solstice is the one of
\* December of the year, the one found in the buffer before the year was dropped
C23_Witness ==
  /\ term_pc = "returned"
  /\ Len(solar_terms_dates) = Len(SOLAR_TERM_LONGITUDES)
  /\ solar_terms_dates[1][1] = "xiaohan"
  /\ solar_terms_dates[Len(solar_terms_dates)][1] = "dongzhi"
  /\ solar_terms_dates[Len(solar_terms_dates)][2] > DayStart(BufferDays + 300)

\* C24: every call of find_solar_term_time ends after at most 50 passes of its
\* loop, for every target and start date, also when the target is not crossed in
\* the bracket, and the instant returned lies in the initial bracket from 00:00 UTC
\* of the start day to 00:00 UTC two days later.
C24_BoundedAndInBracket ==
  fn_result # None =>
    LET d == Val(fn_call).d
        r == Val(fn_result)
    IN /\ r.steps <= max_iterations
       /\ r.precise_time # None =>
            (DayStart(d) <= Val(r.precise_time) /\ Val(r.precise_time) <= DayStart(d + 2))

\* a call for a target that the sun is far from during the whole bracket
C24_Witness ==
  /\ fn_result # None
  /\ Val(fn_result).steps = max_iterations
  /\ Val(fn_result).precise_time # None
  /\ \A t \in {DayStart(Val(fn_call).d), DayStart(Val(fn_call).d + 2)} :
        Abs(FoldedDiff(SunLon(t), Val(fn_call).target_lon)) > Deg(10)

(***************************************************************************)
(* Claims about the driver tick and the telemetry thread (SpecApp).        *)
(***************************************************************************)
\* how many times _write_event_log ran for the key
Delivered(key) == Cardinality({i \in DOMAIN event_log : event_log[i][2] = key})

\* C1: between two ticks, every key that a poll found inside the 1.5 s window
\* (every key in _fired_event_keys) has had its notification delivered exactly
\* once, however many polls fell inside the window.
C1_DeliveredExactlyOnce ==
  drv_pc = "idle" => \A key \in fired_event_keys : Delivered(key) = 1

\* C2: on one local day no (body, kind) gets a second notification, also when the
\* per-minute recomputation has moved its instant by a second or more.
C2_OncePerKindPerDay ==
  \A i, j \in DOMAIN event_log : event_log[i][1] = event_log[j][1] => i = j

\* C3: every (latitude, longitude) pair passed to update_minutely_astro is the pair
\* of one single telemetry fix.
FromOneFix(pair) == \E p \in Positions : pair = <<LatOf(p), LonOf(p)>>
C3_PairFromOneFix == astro_args # None => FromOneFix(Val(astro_args))

\* C4: whatever happens during a tick, update_display reaches its re-arming call:
\* no tick ends without after(1000, update_display).
C4_TickReachesRearm == drv_pc # "dead"

(***************************************************************************)
(* Claims about the solar-term cache (SpecYear).                           *)
(***************************************************************************)
\* C5: whichever threads reach get_solar_term_info and however they interleave,
\* calculate_solar_terms never runs a second time for a calendar year.
C5_OneCalcPerYear == \A y \in Years : calc_runs[y] <= 1

(***************************************************************************)
(* Claims about the day windows (SpecDay).                                 *)
(***************************************************************************)
\* the UTC hours of the local calendar day of the query time
LocalDayOf(dt_local, offset_hours) ==
  {u \in (FirstQueryHour - 2 * HoursPerDay)..(FirstQueryHour + MaxQueryHours + 2 * HoursPerDay) :
     StartOfDay(u + offset_hours) = StartOfDay(dt_local)}

\* C11: every rise, set and transit search examines exactly the instants of the
\* local calendar day of the query time.
C11_SearchIsLocalDay ==
  (fn_call # None /\ fn_result # None) =>
     Val(fn_result) = LocalDayOf(Val(fn_call).dt_local, Val(fn_call).offset_hours)

(***************************************************************************)
(* Claims about init_skyfield and the calculators (SpecCalc).              *)
(***************************************************************************)
\* what a calculator returns when it finds the ephemeris unavailable
Unavailable(calc) == Calculate(calc, {}, CHOOSE day \in Days : TRUE)

\* C12: after a failed init_skyfield, whichever step failed, every call of every
\* calculator returns its ephemeris-unavailable sentinel.
C12_FailedInitUnavailable ==
  (init_pc = "failed" /\ fn_result # None) =>
     Val(fn_result) = Unavailable(Val(fn_call).calc)

\* the outcome of a call, from what the ephemeris holds for the day
OutcomeOf(calc, globals, day) ==
  IF "ephemeris" \notin globals THEN "unavailable"
  ELSE IF globals # AllGlobals THEN "partly loaded"
  ELSE IF day.fault THEN "error"
  ELSE IF day.transitions # <<>> THEN "normal"
  ELSE IF day.alt_fault
  THEN IF calc = "calculate_sun_events_skyfield" THEN "error" ELSE "normal"
  ELSE IF day.alt_noon > 0 /\ day.alt_midn > 0 THEN "always up"
  ELSE IF day.alt_noon < 0 /\ day.alt_midn < 0 THEN "always down"
  ELSE "normal"

FourOutcomes == {"always up", "always down", "error", "unavailable"}
Loads == {AssignedBefore(failure) : failure \in InitFailures}

\* C13: what a calculator returns in one of the four outcomes always up, always
\* down, computation error and ephemeris unavailable is never what it returns in
\* another of the four.
C13_SentinelsDistinct ==
  fn_result # None =>
    LET calc == Val(fn_call).calc
        outcome == OutcomeOf(calc, loaded, Val(fn_call).day)
    IN outcome \in FourOutcomes =>
         \A globals \in Loads, day \in Days :
            (OutcomeOf(calc, globals, day) \in FourOutcomes \ {outcome})
               => Calculate(calc, globals, day) # Val(fn_result)

\* the indices of the transitions of one kind
Rises(transitions) == {i \in 1..Len(transitions) : transitions[i][2] = 1}
Sets(transitions) == {i \in 1..Len(transitions) : transitions[i][2] # 1}

\* dt and az are those of the earliest transition among `which`, None without one
EarliestOf(transitions, which, dt, az) ==
  IF which = {} THEN dt = None /\ az = None
  ELSE /\ dt = Some(transitions[Min(which)][1])
       /\ az = Some(transitions[Min(which)][3])

EventCalculators == {"calculate_sun_events_skyfield", "calculate_moon_events_de421"}
EventsComputed ==
  /\ fn_result # None
  /\ Val(fn_call).calc \in EventCalculators
  /\ loaded = AllGlobals /\ ~Val(fn_call).day.fault

\* C20: the event calculators report as rise the earliest rise transition of the
\* window and as set the earliest set transition, time and azimuth from that same
\* transition.
C20_FirstRiseAndSet ==
  EventsComputed =>
    LET transitions == Val(fn_call).day.transitions
        r == Val(fn_result)
        k == IF Val(fn_call).calc = "calculate_sun_events_skyfield" THEN 2 ELSE 4
    IN /\ EarliestOf(transitions, Rises(transitions), r[k + 1], r[k + 2])
       /\ EarliestOf(transitions, Sets(transitions), r[k + 3], r[k + 4])
       /\ Rises(transitions) # {} =>
            r[1] = EventStr(transitions[Min(Rises(transitions))][1],
                            transitions[Min(Rises(transitions))][3])
       /\ Sets(transitions) # {} =>
            r[2] = EventStr(transitions[Min(Sets(transitions))][1],
                            transitions[Min(Sets(transitions))][3])

\* a call on a day with a second rise and a second set
C20_Witness ==
  /\ EventsComputed
  /\ Cardinality(Rises(Val(fn_call).day.transitions)) >= 2
  /\ Val(fn_call).calc = "calculate_moon_events_de421"
  /\ Val(fn_result)[5] = Some(TransitionGap)

(***************************************************************************)
(* Claims about the recomputation and the firing (SpecApp).                *)
(***************************************************************************)
\* C14: each firing runs the body of update_minutely_astro as part of the firing:
\* when fire_once comes to _write_event_log, its refresh has recomputed.
C14_FiringRecomputes == drv_pc = "write_log" => refreshed = "ran"

\* C15: the body of update_minutely_astro runs at most once per calendar minute.
C15_OncePerMinute ==
  \A i, j \in DOMAIN astro_calcs : astro_calcs[i] = astro_calcs[j] => i = j

\* update_minutely_astro called again in a minute that has its recomputation, after
\* the recomputations of two minutes
C15_Witness == refreshed = "throttled" /\ Len(astro_calcs) = 2

\* C19: a fire_once that has added its key ends, within the same poll, with
\* exactly one record for the key handed to _write_event_log.
C19_FiredKeyNotified ==
  [][(fire_key # None /\ fire_key' = None) =>
        Cardinality({i \in DOMAIN event_log' : event_log'[i][2] = Val(fire_key)}) = 1]_vars

(***************************************************************************)
(* Claims about solar_term_reminder (SpecRemind).                          *)
(***************************************************************************)
\* the day difference of term i, as the function computes it
DeltaDays(call, i) == DateOf(call.solar_terms[i][2]) - call.today
Upcoming(call) == {i \in 1..Len(call.solar_terms) : DeltaDays(call, i) >= 0}
Nearest(call) == {i \in Upcoming(call) : \A j \in Upcoming(call) : DeltaDays(call, i) <= DeltaDays(call, j)}

\* C16: the reminder is that of the nearest upcoming term, in the today form for
\* a difference of 0 days, the tomorrow form for 1 and the within-N-days form for
\* 2 to 30, and it is empty when no term lies 0 to 30 days ahead.
C16_NearestUpcoming ==
  fn_result # None =>
    LET call == Val(fn_call)
        term(i) == call.solar_terms[i]
        time_of(i) == ClockStr(LocalOf(term(i)[2], call.offset_hours))
        date_of(i) == DateClockStr(LocalOf(term(i)[2], call.offset_hours))
    IN IF \E i \in Upcoming(call) : DeltaDays(call, i) <= ReminderWindow
       THEN \E i \in Nearest(call) :
              Val(fn_result) =
                 IF DeltaDays(call, i) = 0 THEN TodayForm(term(i)[1], time_of(i))
                 ELSE IF DeltaDays(call, i) = 1 THEN TomorrowForm(term(i)[1], time_of(i))
                 ELSE WithinForm(DeltaDays(call, i), term(i)[1], date_of(i))
       ELSE Val(fn_result) = Str("")

\* a term tomorrow, reported, with a later term within 30 days behind it and a
\* past term before it
C16_Witness ==
  /\ fn_result # None
  /\ Val(fn_result)[1] = "mingri jieqi"
  /\ \E i \in Upcoming(Val(fn_call)) : 1 < DeltaDays(Val(fn_call), i) /\ DeltaDays(Val(fn_call), i) <= ReminderWindow
  /\ \E i \in 1..Len(Val(fn_call).solar_terms) : DeltaDays(Val(fn_call), i) < 0

\* the local calendar date of the term that the reminder names
LocalDateOfNamed(call, name) ==
  LET i == CHOOSE j \in 1..Len(call.solar_terms) : call.solar_terms[j][1] = name
  IN DateOf(LocalOf(call.solar_terms[i][2], call.offset_hours))

\* C27: the wording agrees with the local time printed: "today" only when the local
\* date of the term's instant is the local today, "tomorrow" only when it is the
\* next local date, and the day count N is the difference of the local dates.
C27_WordingIsLocal ==
  (fn_result # None /\ Val(fn_result) # Str("")) =>
    LET call == Val(fn_call)
        r == Val(fn_result)
    IN CASE r[1] = "jinri jieqi"  -> LocalDateOfNamed(call, r[2]) = call.today
         [] r[1] = "mingri jieqi" -> LocalDateOfNamed(call, r[2]) = call.today + 1
         [] OTHER                 -> LocalDateOfNamed(call, r[3]) - call.today = r[2]

(***************************************************************************)
(* Claim on the polar branch of calculate_sun_events_skyfield (SpecCalc).  *)
(***************************************************************************)
\* a call of calculate_sun_events_skyfield that finds no rise and no set
NoRiseNoSet ==
  /\ fn_result # None
  /\ Val(fn_call).calc = "calculate_sun_events_skyfield"
  /\ loaded = AllGlobals /\ ~Val(fn_call).day.fault
  /\ Val(fn_call).day.transitions = <<>>

SunSentinel(text) == SunEvents(Str(text), Str(text), NoEvents)

\* C21: without a rise and a set, and with both altitudes evaluated, the result is
\* the always-up sentinel (both altitudes positive) or the always-down sentinel
\* (both negative); the computation-error sentinel is the result when an altitude
\* could not be evaluated.
C21_PolarOrUnevaluated ==
  NoRiseNoSet =>
    LET day == Val(fn_call).day
    IN IF day.alt_fault
       THEN Val(fn_result) = SunSentinel("jisuancuowu")
       ELSE \/ Val(fn_result) = SunSentinel("jizhou") /\ day.alt_noon > 0 /\ day.alt_midn > 0
            \/ Val(fn_result) = SunSentinel("jiye") /\ day.alt_noon < 0 /\ day.alt_midn < 0

(***************************************************************************)
(* Claim on the hemisphere fields of parse_gprmc (SpecParse).              *)
(***************************************************************************)
\* tag, status and the four numbers are valid, a hemisphere field is not
OddHemisphere(l) ==
  /\ ~Rejectable(l)
  /\ \/ Part(l, 4) \notin {<<"N">>, <<"S">>}
     \/ Part(l, 6) \notin {<<"E">>, <<"W">>}

\* C18: a line whose latitude hemisphere is neither N nor S, or whose longitude
\* hemisphere is neither E nor W, is dropped (parse_gprmc returns None) although
\* its tag, status and numeric fields are valid.
C18_OddHemisphereDropped ==
  (line # None /\ OddHemisphere(Val(line))) => parsed = None

(***************************************************************************)
(* Claims about the moon phase names (SpecPhase).                          *)
(***************************************************************************)
\* the intervals [lo, hi) of the phases, in sixteenths of the cycle
PhaseTable ==
  << <<0, 1, "xinyue">>, <<1, 3, "emeiyue">>, <<3, 5, "shangxianyue">>,
     <<5, 7, "yingtuyue">>, <<7, 9, "manyue">>, <<9, 11, "kuituyue">>,
     <<11, 13, "xiaxianyue">>, <<13, 15, "canyue">>, <<15, 16, "xinyue">> >>

InBucket(phase_ratio, k) ==
  PhaseTable[k][1] * Sixteenth <= phase_ratio /\ phase_ratio < PhaseTable[k][2] * Sixteenth

\* C17: every ratio of [0, 1) is in exactly one interval of the table, the name
\* returned is the name of that interval, and the boundaries increase from 0 to 1
\* without a gap.
C17_PhasePartition ==
  fn_result # None =>
    LET phase_ratio == Val(fn_call).phase_ratio
        buckets == {k \in DOMAIN PhaseTable : InBucket(phase_ratio, k)}
    IN /\ Cardinality(buckets) = 1
       /\ \A k \in buckets : Val(fn_result)[1] = PhaseTable[k][3]
       /\ PhaseTable[1][1] = 0 /\ PhaseTable[Len(PhaseTable)][2] * Sixteenth = PhaseUnits
       /\ \A k \in DOMAIN PhaseTable : PhaseTable[k][1] < PhaseTable[k][2]
       /\ \A k \in 1..(Len(PhaseTable) - 1) : PhaseTable[k][2] = PhaseTable[k + 1][1]

\* a ratio on a boundary: 0.0625 is a waxing crescent
C17_Witness ==
  /\ fn_result # None
  /\ Val(fn_call).phase_ratio = Sixteenth
  /\ Val(fn_result)[1] = "emeiyue"

(***************************************************************************)
(* Claim on the fired keys across midnight (SpecRollover).                 *)
(***************************************************************************)
\* the records written for a key
RecordsOf(key) == {event_log[i] : i \in {j \in DOMAIN event_log : event_log[j][2] = key}}
\* the keys fired since the last midnight before t
FiredToday(t) ==
  {event_log[i][2] : i \in {j \in DOMAIN event_log : DayOfTick(event_log[j][3]) = DayOfTick(t)}}

\* C25: fired keys of different days never collide: a poll that finds the key of an
\* event in the fired set finds a key that was fired for an event scheduled on the
\* same day, and it finds it in the keys fired since the last midnight too, so that
\* discarding the set at midnight changes no firing decision.
C25_KeysSafeAcrossDays ==
  [][tick_due' # tick_due /\ wall' = wall =>
       \A kind \in KindSet :
          LET ev_dt == next_dt'[kind]
          IN (should_fire(wall, ev_dt) /\ DatedKey(kind, ev_dt) \in fired_event_keys) =>
               /\ \A rec \in RecordsOf(DatedKey(kind, ev_dt)) :
                     DayOfTick(rec[4]) = DayOfTick(Val(ev_dt))
               /\ DatedKey(kind, ev_dt) \in FiredToday(wall)]_vars

(***************************************************************************)
(* Claim on the retry of a failed recomputation (SpecRollover).            *)
(***************************************************************************)
ErrorShown == cached.sunrise = Str("jisuancuowu")

\* a driver tick with a fix, in a minute after the one of the failed recomputation
RetryTick ==
  /\ tick_due' # tick_due /\ wall' = wall
  /\ latest_data # None /\ is_connected
  /\ ErrorShown
  /\ last_astro_calc_minute # None /\ MinuteOf(wall) > Val(last_astro_calc_minute)

WindowAfter(k) ==
  IF k = 0 THEN <<>> ELSE NotExpired(SubSeq(inserted, 1, k), inserted[k][1])

\* C28: every average computed while the telemetry thread runs add_sample is the
\* mean of a window that satisfies the 20 s bound, a window as add_sample leaves
\* it: the reader never sees the window between the append and the eviction, and
\* never fails because the window changed during the read.
C28_AverageOfWholeWindow ==
  fn_result # None =>
    \E k \in 0..Len(inserted) : Val(fn_result) = <<"mean">> \o average(WindowAfter(k))

(***************************************************************************)
(* C29: in every run of tcp_recv_thread the records handed to              *)
(* log_connection_event alternate strictly, starting with a connect; a     *)
(* connection attempt that fails while the thread is disconnected logs     *)
(* nothing; and from each disconnect record until the next connect record  *)
(* latest_data is None.                                                    *)
(***************************************************************************)
Alternating(log) ==
  \A i \in 1..Len(log) : log[i] = (IF i % 2 = 1 THEN "connect" ELSE "disconnect")

LastIsDisconnect(log) == log # <<>> /\ log[Len(log)] = "disconnect"

FailedAttemptStep ==
  \/ tcp_pc = "connect" /\ tcp_pc' = "finally"
  \/ tcp_pc = "finally" /\ ~is_connected

C29_RecordsAlternate ==
  /\ [](Alternating(conn_log))
  /\ [](LastIsDisconnect(conn_log) => latest_data = None)
  /\ [][FailedAttemptStep => conn_log' = conn_log]_vars

C29_Witness ==
  /\ conn_log = <<"connect", "disconnect", "connect", "disconnect">>
  /\ clock = 2 /\ tcp_pc = "sleep"
  /\ ~is_connected /\ latest_data = None

(***************************************************************************)
(* C30: for every latitude in [-90, 90] and longitude in [-180, 180] the   *)
(* string dmm_format produces has a minutes field strictly below 60, and   *)
(* decoding its digits and hemisphere letter the way parse_gprmc does      *)
(* gives back the value to within 0.0005 minutes.                          *)
(***************************************************************************)
\* where the degree sign is in the text
DegMark(text) == CHOOSE i \in 1..Len(text) : text[i] = "deg"

\* the minutes field: between the degree sign and the minute mark
MinutesFieldOf(text) == SubSeq(text, DegMark(text) + 1, Len(text) - 2)

\* the ddmm.mmm digits and the hemisphere letter, decoded as parse_gprmc does
DecodeDmm(text, negative_dir) ==
  DecodeDegMin(Val(ParseFloat(SubSeq(text, 1, DegMark(text) - 1) \o MinutesFieldOf(text))),
               <<text[Len(text)]>>, negative_dir)

HalfMilliMinute == Scale \div 2000

C30_DmmRoundTrip ==
  (fn_call # None /\ "is_lat" \in DOMAIN Val(fn_call)) =>
    LET c == Val(fn_call)
        text == Val(fn_result)
    IN /\ Val(ParseFloat(MinutesFieldOf(text))) < MinutesPerDegree
       /\ Abs(DecodeDmm(text, IF c.is_lat THEN <<"S">> ELSE <<"W">>) - c.dd) <= HalfMilliMinute

====
